---- MODULE Spec2Model ----
(***************************************************************************)
(* Model of the chess bot's move interpreter (src/move_parser.py) and of   *)
(* the part of the rules library (python-chess) that it calls.             *)
(*                                                                         *)
(* Text is modelled as Python models it: a str is a sequence of Unicode    *)
(* code points (97 is Latin a, 1072 is Cyrillic a).  Case folding,     *)
(* stripping, substring search, replacement, splitting and the regular     *)
(* expressions are computed on those sequences.                            *)
(***************************************************************************)
EXTENDS Integers, Sequences, FiniteSets, TLC

(***************************************************************************)
(* Python str primitives                                                   *)
(***************************************************************************)

\* ord(c) of a one-character ASCII string, from the characters in code-point
\* order: 32..90 without the double quote (34, held by a second space), and the
\* lower-case letters 97..122.
Ord(c) ==
    LET low == " !  $%&'()*+,-./0123456789:;<=>?@ABCDEFGHIJKLMNOPQRSTUVWXYZ"
        letters == "abcdefghijklmnopqrstuvwxyz"
    IN IF c = " " THEN 32
       ELSE IF c = "#" THEN 35
       ELSE IF \E i \in 1..Len(low) : SubSeq(low, i, i) = c
       THEN 31 + (CHOOSE i \in 1..Len(low) : SubSeq(low, i, i) = c)
       ELSE 96 + (CHOOSE i \in 1..Len(letters) : SubSeq(letters, i, i) = c)

\* An ASCII string literal as a sequence of code points.
Str(s) == [i \in 1..Len(s) |-> Ord(SubSeq(s, i, i))]

\* str.lower() on one code point (Latin A-Z, Cyrillic 1040..1071, 1024..1039 and 1168).
LowerChar(c) ==
    IF c \in 65..90 THEN c + 32
    ELSE IF c \in 1040..1071 THEN c + 32
    ELSE IF c \in 1024..1039 THEN c + 80
    ELSE IF c = 1168 THEN 1169
    ELSE c

\* str.upper() on one code point.
UpperChar(c) ==
    IF c \in 97..122 THEN c - 32
    ELSE IF c \in 1072..1103 THEN c - 32
    ELSE IF c \in 1104..1119 THEN c - 80
    ELSE IF c = 1169 THEN 1168
    ELSE c

Lower(s) == [i \in 1..Len(s) |-> LowerChar(s[i])]

Upper(s) == [i \in 1..Len(s) |-> UpperChar(s[i])]

\* str.capitalize(): first character upper-cased, the rest lower-cased.
Capitalize(s) == [i \in 1..Len(s) |-> IF i = 1 THEN UpperChar(s[i]) ELSE LowerChar(s[i])]

\* Characters str.strip() removes.
IsSpace(c) == c \in {9, 10, 11, 12, 13, 28, 29, 30, 31, 32, 133, 160}

RECURSIVE LStrip(_)
LStrip(s) == IF s # <<>> /\ IsSpace(Head(s)) THEN LStrip(Tail(s)) ELSE s

RECURSIVE RStrip(_)
RStrip(s) == IF s # <<>> /\ IsSpace(s[Len(s)]) THEN RStrip(SubSeq(s, 1, Len(s) - 1)) ELSE s

Strip(s) == RStrip(LStrip(s))

\* sub occurs in s at index i.
MatchAt(s, sub, i) == i + Len(sub) - 1 <= Len(s) /\ SubSeq(s, i, i + Len(sub) - 1) = sub

\* Python's (sub in s).
Contains(s, sub) == \E i \in 1..(Len(s) + 1) : MatchAt(s, sub, i)

\* str.replace(old, new) for a non-empty old: leftmost, non-overlapping.
RECURSIVE ReplaceFrom(_, _, _, _)
ReplaceFrom(s, old, new, i) ==
    IF i > Len(s) THEN <<>>
    ELSE IF MatchAt(s, old, i) THEN new \o ReplaceFrom(s, old, new, i + Len(old))
    ELSE <<s[i]>> \o ReplaceFrom(s, old, new, i + 1)

Replace(s, old, new) == ReplaceFrom(s, old, new, 1)

\* str.split(sep) on a one-character separator: the list of parts.
RECURSIVE SplitFrom(_, _, _, _)
SplitFrom(s, sep, i, cur) ==
    IF i > Len(s) THEN <<cur>>
    ELSE IF s[i] = sep THEN <<cur>> \o SplitFrom(s, sep, i + 1, <<>>)
    ELSE SplitFrom(s, sep, i + 1, Append(cur, s[i]))

Split(s, sep) == SplitFrom(s, sep, 1, <<>>)

IsFileChar(c) == c \in 97..104

IsRankChar(c) == c \in 49..56

\* re.findall(r'[a-h][1-8]', s): leftmost non-overlapping matches, in order.
RECURSIVE FindSquaresFrom(_, _)
FindSquaresFrom(s, i) ==
    IF i + 1 > Len(s) THEN <<>>
    ELSE IF IsFileChar(s[i]) /\ IsRankChar(s[i + 1])
         THEN <<SubSeq(s, i, i + 1)>> \o FindSquaresFrom(s, i + 2)
         ELSE FindSquaresFrom(s, i + 1)

FindSquares(s) == FindSquaresFrom(s, 1)

(***************************************************************************)
(* The rules library: squares, pieces, boards                              *)
(***************************************************************************)

PAWN == 1
KNIGHT == 2
BISHOP == 3
ROOK == 4
QUEEN == 5
KING == 6


\* A missing value (Python's None), for squares, pieces and promotions.
None == 0

Squares == 0..63

square_file(sq) == sq % 8

square_rank(sq) == sq \div 8

square(f, r) == r * 8 + f

OnBoard(f, r) == f \in 0..7 /\ r \in 0..7

\* chess.square_name(sq): file letter then rank digit.
square_name(sq) == <<97 + square_file(sq), 49 + square_rank(sq)>>

\* A piece on a square is a signed type: positive white, negative black, 0 empty.
PieceType(p) == IF p < 0 THEN -p ELSE p

PieceColor(p) == p > 0

MkPiece(t, c) == IF c THEN t ELSE -t

\* chess.PIECE_SYMBOLS[t], lower case: p n b r q k.
PieceSymbol(t) == <<112, 110, 98, 114, 113, 107>>[t]

\* The piece type a symbol names (either case), or None.
SymbolType(ch) ==
    LET l == LowerChar(ch)
    IN IF \E t \in 1..6 : PieceSymbol(t) = l
       THEN CHOOSE t \in 1..6 : PieceSymbol(t) = l
       ELSE None

\* chess.Move: from_square, to_square, promotion (None when absent).
Move(f, t, p) == [from_square |-> f, to_square |-> t, promotion |-> p]

\* chess.Move.null()
NullMove == Move(0, 0, None)

\* Move.__bool__: a null move is falsy.
MoveBool(m) == m.from_square # 0 \/ m.to_square # 0 \/ m.promotion # None

\* Move.uci()
MoveUci(m) ==
    IF ~MoveBool(m) THEN Str("0000")
    ELSE square_name(m.from_square) \o square_name(m.to_square)
         \o (IF m.promotion # None THEN <<PieceSymbol(m.promotion)>> ELSE <<>>)

piece_at(b, sq) == b.pieces[sq]

piece_type_at(b, sq) == PieceType(b.pieces[sq])

OccupiedCo(b, c) == {s \in Squares : b.pieces[s] # 0 /\ PieceColor(b.pieces[s]) = c}

\* The square of colour c's king, or -1 when there is none.
King(b, c) ==
    IF \E s \in Squares : b.pieces[s] = MkPiece(KING, c)
    THEN CHOOSE s \in Squares : b.pieces[s] = MkPiece(KING, c)
    ELSE -1

\* The steps of the knight and the king, and the directions of the sliders.
Deltas ==
    [knight |-> {<<1, 2>>, <<2, 1>>, <<2, -1>>, <<1, -2>>, <<-1, -2>>, <<-2, -1>>, <<-2, 1>>,
                 <<-1, 2>>},
     king |-> {<<1, 0>>, <<1, 1>>, <<0, 1>>, <<-1, 1>>, <<-1, 0>>, <<-1, -1>>, <<0, -1>>,
               <<1, -1>>},
     bishop |-> {<<1, 1>>, <<-1, 1>>, <<-1, -1>>, <<1, -1>>},
     rook |-> {<<1, 0>>, <<0, 1>>, <<-1, 0>>, <<0, -1>>}]

StepTargets(sq, deltas) ==
    {square(square_file(sq) + d[1], square_rank(sq) + d[2]) :
        d \in {e \in deltas : OnBoard(square_file(sq) + e[1], square_rank(sq) + e[2])}}

\* Squares a slider on sq reaches along dirs over the placement pcs: up to and
\* including the first occupied square.
SlideTargets(pcs, sq, dirs) ==
    UNION {
        {square(square_file(sq) + k * d[1], square_rank(sq) + k * d[2]) :
            k \in {j \in 1..7 :
                /\ OnBoard(square_file(sq) + j * d[1], square_rank(sq) + j * d[2])
                /\ \A i \in 1..(j - 1) :
                      pcs[square(square_file(sq) + i * d[1], square_rank(sq) + i * d[2])] = 0}}
        : d \in dirs}

\* BB_PAWN_ATTACKS[color][sq]
PawnAttacks(sq, c) ==
    StepTargets(sq, IF c THEN {<<-1, 1>>, <<1, 1>>} ELSE {<<-1, -1>>, <<1, -1>>})

\* Board.attacks_mask(sq) over the placement pcs.
AttacksOf(pcs, sq) ==
    LET p == pcs[sq]
        t == PieceType(p)
    IN IF t = PAWN THEN PawnAttacks(sq, PieceColor(p))
       ELSE IF t = KNIGHT THEN StepTargets(sq, Deltas.knight)
       ELSE IF t = KING THEN StepTargets(sq, Deltas.king)
       ELSE IF t = BISHOP THEN SlideTargets(pcs, sq, Deltas.bishop)
       ELSE IF t = ROOK THEN SlideTargets(pcs, sq, Deltas.rook)
       ELSE IF t = QUEEN THEN SlideTargets(pcs, sq, Deltas.bishop \cup Deltas.rook)
       ELSE {}

\* Board.attackers_mask(c, sq) over the placement pcs: the squares holding a
\* piece of colour c that attacks sq.
AttackersOf(pcs, c, sq) ==
    LET Holds(s, ts) == pcs[s] # 0 /\ PieceColor(pcs[s]) = c /\ PieceType(pcs[s]) \in ts
    IN {s \in SlideTargets(pcs, sq, Deltas.rook) : Holds(s, {ROOK, QUEEN})}
       \cup {s \in SlideTargets(pcs, sq, Deltas.bishop) : Holds(s, {BISHOP, QUEEN})}
       \cup {s \in StepTargets(sq, Deltas.knight) : Holds(s, {KNIGHT})}
       \cup {s \in StepTargets(sq, Deltas.king) : Holds(s, {KING})}
       \cup {s \in PawnAttacks(sq, ~c) : Holds(s, {PAWN})}

\* Board.is_attacked_by(c, sq) over the placement pcs.
IsAttackedBy(pcs, c, sq) == AttackersOf(pcs, c, sq) # {}

\* Board.is_check()
is_check(b) ==
    LET k == King(b, b.turn)
    IN k # -1 /\ IsAttackedBy(b.pieces, ~b.turn, k)

(***************************************************************************)
(* Board state and Board.push / Board.pop                                  *)
(***************************************************************************)

\* Board.ep_square when there is none.
NoSquare == -1

\* The saved part of a board (what Board.pop restores).
BoardState(b) ==
    [pieces |-> b.pieces, turn |-> b.turn, castling_rights |-> b.castling_rights,
     ep_square |-> b.ep_square, halfmove_clock |-> b.halfmove_clock,
     fullmove_number |-> b.fullmove_number]

\* Board.is_en_passant(move)
is_en_passant(b, m) ==
    /\ b.ep_square = m.to_square
    /\ piece_type_at(b, m.from_square) = PAWN
    /\ (IF m.to_square > m.from_square THEN m.to_square - m.from_square
        ELSE m.from_square - m.to_square) \in {7, 9}
    /\ b.pieces[m.to_square] = 0

\* Board.is_capture(move)
is_capture(b, m) ==
    \/ (b.pieces[m.to_square] # 0 /\ PieceColor(b.pieces[m.to_square]) # b.turn)
    \/ is_en_passant(b, m)

\* Board.is_castling(move): a king move of two or more files, or of the king
\* onto a rook of its own colour (the library's internal form of castling).
is_castling(b, m) ==
    /\ piece_type_at(b, m.from_square) = KING
    /\ LET d == square_file(m.from_square) - square_file(m.to_square)
       IN \/ d > 1
          \/ d < -1
          \/ b.pieces[m.to_square] = MkPiece(ROOK, b.turn)

\* The piece placement after a move of the side to move.
PlacementAfter(b, m) ==
    LET p == b.pieces[m.from_square]
        c == PieceColor(p)
        placed == IF m.promotion # None THEN MkPiece(m.promotion, c) ELSE p
        r == square_rank(m.from_square)
        short == square_file(m.to_square) > square_file(m.from_square)
        cleared == [b.pieces EXCEPT ![m.from_square] = 0,
                                    ![square(IF short THEN 7 ELSE 0, r)] = 0]
    IN IF is_castling(b, m)
       THEN [cleared EXCEPT ![square(IF short THEN 6 ELSE 2, r)] = p,
                            ![square(IF short THEN 5 ELSE 3, r)] = MkPiece(ROOK, c)]
       ELSE IF is_en_passant(b, m)
       THEN [b.pieces EXCEPT ![m.from_square] = 0,
                             ![m.to_square + (IF c THEN -8 ELSE 8)] = 0,
                             ![m.to_square] = placed]
       ELSE [b.pieces EXCEPT ![m.from_square] = 0, ![m.to_square] = placed]

\* Board.push(move)
Push(b, m) ==
    LET p == b.pieces[m.from_square]
        t == PieceType(p)
        zeroing == t = PAWN \/ is_capture(b, m)
        backrank == IF b.turn THEN 0 ELSE 7
        rights1 == b.castling_rights \ {m.from_square, m.to_square}
        rights2 == IF t = KING
                   THEN {s \in rights1 : square_rank(s) # backrank}
                   ELSE rights1
        diff == m.to_square - m.from_square
        ep == IF t = PAWN /\ diff = 16 /\ square_rank(m.from_square) = 1
              THEN m.from_square + 8
              ELSE IF t = PAWN /\ diff = -16 /\ square_rank(m.from_square) = 6
              THEN m.from_square - 8
              ELSE NoSquare
    IN IF ~MoveBool(m)
       THEN [b EXCEPT !.turn = ~b.turn, !.ep_square = NoSquare,
                      !.halfmove_clock = b.halfmove_clock + 1,
                      !.fullmove_number = IF b.turn THEN @ ELSE @ + 1,
                      !.move_stack = Append(@, m),
                      !.state_stack = Append(@, BoardState(b))]
       ELSE [pieces |-> PlacementAfter(b, m),
             turn |-> ~b.turn,
             castling_rights |-> rights2,
             ep_square |-> ep,
             halfmove_clock |-> IF zeroing THEN 0 ELSE b.halfmove_clock + 1,
             fullmove_number |-> IF b.turn THEN b.fullmove_number ELSE b.fullmove_number + 1,
             move_stack |-> Append(b.move_stack, m),
             state_stack |-> Append(b.state_stack, BoardState(b))]

\* Board.pop(): restores the state saved by the last push.
Pop(b) ==
    LET n == Len(b.state_stack)
        s == b.state_stack[n]
    IN [pieces |-> s.pieces, turn |-> s.turn, castling_rights |-> s.castling_rights,
        ep_square |-> s.ep_square, halfmove_clock |-> s.halfmove_clock,
        fullmove_number |-> s.fullmove_number,
        move_stack |-> SubSeq(b.move_stack, 1, n - 1),
        state_stack |-> SubSeq(b.state_stack, 1, n - 1)]

(***************************************************************************)
(* Legal move generation, in the library's enumeration order               *)
(***************************************************************************)

\* scan_reversed: the squares of a set from the highest down.
RECURSIVE ScanReversed(_)
ScanReversed(S) ==
    IF S = {} THEN <<>>
    ELSE LET m == CHOOSE x \in S : \A y \in S : y <= x
         IN <<m>> \o ScanReversed(S \ {m})

RECURSIVE Flatten(_)
Flatten(ss) == IF ss = <<>> THEN <<>> ELSE Head(ss) \o Flatten(Tail(ss))

\* Board.clean_castling_rights(): rights whose rook and king stand at home.
clean_castling_rights(b) ==
    {s \in b.castling_rights :
        LET c == square_rank(s) = 0
        IN /\ s \in {0, 7, 56, 63}
           /\ b.pieces[s] = MkPiece(ROOK, c)
           /\ b.pieces[square(4, square_rank(s))] = MkPiece(KING, c)}

\* Board._from_chess960: outside Chess960 a king on e1/e8 moving onto the
\* h- or a-rook square is read as the castling move to g or c.
FromChess960(b, f, t, p) ==
    IF p = None /\ f \in {4, 60} /\ piece_type_at(b, f) = KING /\ t \in {f + 3, f - 4}
    THEN Move(f, IF t > f THEN f + 2 ELSE f - 2, None)
    ELSE Move(f, t, p)

\* Board.generate_castling_moves(from_mask, to_mask): to_mask selects the rooks.
generate_castling_moves(b, from_mask, to_mask) ==
    LET c == b.turn
        r == IF c THEN 0 ELSE 7
        king == square(4, r)
        noKing == [b.pieces EXCEPT ![king] = 0]
        Ok(rook) ==
            LET a_side == rook < king
                king_to == square(IF a_side THEN 2 ELSE 6, r)
                rook_to == square(IF a_side THEN 3 ELSE 5, r)
                empties == IF a_side THEN {square(1, r), square(2, r), square(3, r)}
                           ELSE {square(5, r), square(6, r)}
                moved == [noKing EXCEPT ![rook] = 0, ![rook_to] = MkPiece(ROOK, c)]
            IN /\ \A s \in empties : b.pieces[s] = 0
               /\ ~IsAttackedBy(noKing, ~c, king)
               /\ ~IsAttackedBy(noKing, ~c, rook_to)
               /\ ~IsAttackedBy(moved, ~c, king_to)
        cands == SelectSeq(ScanReversed({s \in clean_castling_rights(b) \cap to_mask :
                                            square_rank(s) = r}), Ok)
    IN IF king \notin from_mask THEN <<>>
       ELSE [i \in 1..Len(cands) |-> Move(king, square(IF cands[i] < king THEN 2 ELSE 6, r), None)]

\* The moves of one pawn step to to_square: four promotions on a back rank.
PawnMovesTo(f, t) ==
    IF square_rank(t) \in {0, 7}
    THEN <<Move(f, t, QUEEN), Move(f, t, ROOK), Move(f, t, BISHOP), Move(f, t, KNIGHT)>>
    ELSE <<Move(f, t, None)>>

\* Board.generate_pseudo_legal_ep(from_mask, to_mask)
generate_pseudo_legal_ep(b, from_mask, to_mask) ==
    IF b.ep_square = NoSquare \/ b.ep_square \notin to_mask THEN <<>>
    ELSE IF b.pieces[b.ep_square] # 0 THEN <<>>
    ELSE IF square_rank(b.ep_square) # (IF b.turn THEN 5 ELSE 2) THEN <<>>
    ELSE LET capturers == {s \in PawnAttacks(b.ep_square, ~b.turn) \cap from_mask :
                              b.pieces[s] = MkPiece(PAWN, b.turn)}
             sq == ScanReversed(capturers)
         IN [i \in 1..Len(sq) |-> Move(sq[i], b.ep_square, None)]

\* Board.generate_pseudo_legal_moves(from_mask, to_mask)
generate_pseudo_legal_moves(b, from_mask, to_mask) ==
    LET c == b.turn
        ours == OccupiedCo(b, c)
        theirs == OccupiedCo(b, ~c)
        non_pawns == ScanReversed({s \in ours \cap from_mask : piece_type_at(b, s) # PAWN})
        pawns == {s \in ours \cap from_mask : piece_type_at(b, s) = PAWN}
        fwd == IF c THEN 8 ELSE -8
        PieceMoves(f) ==
            LET ts == ScanReversed((AttacksOf(b.pieces, f) \ ours) \cap to_mask)
            IN [i \in 1..Len(ts) |-> Move(f, ts[i], None)]
        Captures(f) ==
            LET ts == ScanReversed(PawnAttacks(f, c) \cap theirs \cap to_mask)
            IN Flatten([i \in 1..Len(ts) |-> PawnMovesTo(f, ts[i])])
        capturers == ScanReversed(pawns)
        singles == {s + fwd : s \in {p \in pawns : p + fwd \in Squares /\ b.pieces[p + fwd] = 0}}
        doubles == {s + fwd : s \in {t \in singles :
                        /\ square_rank(t) = (IF c THEN 2 ELSE 5)
                        /\ b.pieces[t + fwd] = 0}}
        sseq == ScanReversed(singles \cap to_mask)
        dseq == ScanReversed(doubles \cap to_mask)
    IN Flatten([i \in 1..Len(non_pawns) |-> PieceMoves(non_pawns[i])])
       \o generate_castling_moves(b, from_mask, to_mask)
       \o Flatten([i \in 1..Len(capturers) |-> Captures(capturers[i])])
       \o Flatten([i \in 1..Len(sseq) |-> PawnMovesTo(sseq[i] - fwd, sseq[i])])
       \o [i \in 1..Len(dseq) |-> Move(dseq[i] - 2 * fwd, dseq[i], None)]
       \o generate_pseudo_legal_ep(b, from_mask, to_mask)

\* Board._is_safe: the move does not leave the mover's king attacked.
IsSafe(b, m) ==
    LET after == PlacementAfter(b, m)
        k == King(b, b.turn)
    IN IF k = -1 THEN TRUE
       ELSE IF m.from_square = k
            THEN is_castling(b, m) \/ ~IsAttackedBy(after, ~b.turn, m.to_square)
            ELSE ~IsAttackedBy(after, ~b.turn, k)

\* Board.generate_legal_moves(from_mask, to_mask): in check the king's evasions
\* come first.
EvasionsFirst(b, legal) ==
    LET IsKingMove(m) == piece_type_at(b, m.from_square) = KING
        NotKingMove(m) == piece_type_at(b, m.from_square) # KING
    IN IF is_check(b)
       THEN SelectSeq(legal, IsKingMove) \o SelectSeq(legal, NotKingMove)
       ELSE legal

generate_legal_moves(b, from_mask, to_mask) ==
    LET Safe(m) == IsSafe(b, m)
    IN EvasionsFirst(b, SelectSeq(generate_pseudo_legal_moves(b, from_mask, to_mask), Safe))

\* list(board.legal_moves)
legal_moves(b) == generate_legal_moves(b, Squares, Squares)

SeqToSet(s) == {s[i] : i \in 1..Len(s)}

\* Board.is_pseudo_legal(move)
is_pseudo_legal(b, m) ==
    LET p == b.pieces[m.from_square]
        t == PieceType(p)
    IN /\ MoveBool(m)
       /\ p # 0
       /\ PieceColor(p) = b.turn
       /\ m.promotion # None =>
             (t = PAWN /\ square_rank(m.to_square) = (IF b.turn THEN 7 ELSE 0))
       /\ \/ /\ t = KING
             /\ FromChess960(b, m.from_square, m.to_square, None)
                   \in SeqToSet(generate_castling_moves(b, Squares, Squares))
          \/ /\ ~(b.pieces[m.to_square] # 0 /\ PieceColor(b.pieces[m.to_square]) = b.turn)
             /\ IF t = PAWN
                THEN m \in SeqToSet(generate_pseudo_legal_moves(b, {m.from_square}, {m.to_square}))
                ELSE m.to_square \in AttacksOf(b.pieces, m.from_square)

\* Board.is_legal(move), which is also (move in board.legal_moves).
is_legal(b, m) == is_pseudo_legal(b, m) /\ IsSafe(b, m)

\* Board.is_checkmate()
is_checkmate(b) == is_check(b) /\ legal_moves(b) = <<>>

(***************************************************************************)
(* chess.Board(fen)                                                        *)
(***************************************************************************)

\* One rank of a FEN placement as a sequence of eight pieces, file a first.
RECURSIVE FenRow(_)
FenRow(row) ==
    IF row = <<>> THEN <<>>
    ELSE IF IsRankChar(Head(row))
         THEN [i \in 1..(Head(row) - 48) |-> 0] \o FenRow(Tail(row))
         ELSE <<MkPiece(SymbolType(Head(row)), Head(row) \in 65..90)>> \o FenRow(Tail(row))

\* The rook square a castling letter of a FEN stands for.
CastlingSquare(ch) ==
    IF ch = 75 THEN 7 ELSE IF ch = 81 THEN 0 ELSE IF ch = 107 THEN 63 ELSE 56

\* A decimal numeral as a number.
RECURSIVE ParseInt(_)
ParseInt(s) == IF s = <<>> THEN 0 ELSE ParseInt(SubSeq(s, 1, Len(s) - 1)) * 10 + (s[Len(s)] - 48)

\* chess.Board(fen) for a well-formed six-field FEN.
BoardFromFen(fen) ==
    LET parts == Split(fen, 32)
        rows == Split(parts[1], 47)
        grid == [i \in 1..8 |-> FenRow(rows[9 - i])]
    IN [pieces |-> [sq \in Squares |-> grid[square_rank(sq) + 1][square_file(sq) + 1]],
        turn |-> parts[2] = Str("w"),
        castling_rights |-> IF parts[3] = Str("-") THEN {}
                            ELSE {CastlingSquare(parts[3][i]) : i \in 1..Len(parts[3])},
        ep_square |-> IF parts[4] = Str("-") THEN NoSquare
                      ELSE square(parts[4][1] - 97, parts[4][2] - 49),
        halfmove_clock |-> ParseInt(parts[5]),
        fullmove_number |-> ParseInt(parts[6]),
        move_stack |-> <<>>,
        state_stack |-> <<>>]

\* chess.STARTING_FEN
STARTING_FEN == Str("rnbqkbnr/pppppppp/8/8/8/8/PPPPPPPP/RNBQKBNR w KQkq - 0 1")

(***************************************************************************)
(* Move text in the rules library: Move.from_uci, Board.san, parse_san     *)
(***************************************************************************)

\* The outcome of a library call: a returned value (a sequence holding the
\* value), or a raised exception.
Returned(v) == [raised |-> FALSE, value |-> <<v>>]

Raised == [raised |-> TRUE, value |-> <<>>]

\* A two-character square name is one of chess.SQUARE_NAMES.
IsSquareName(s) == Len(s) = 2 /\ IsFileChar(s[1]) /\ IsRankChar(s[2])

\* chess.SQUARE_NAMES.index(name) for a square name.
SquareIndex(s) == square(s[1] - 97, s[2] - 49)

\* chess.parse_square(name)
parse_square(s) == IF IsSquareName(s) THEN Returned(SquareIndex(s)) ELSE Raised

\* chess.Move.from_uci(uci).  A drop ("P@e4") is never legal and is read here
\* as invalid.
from_uci(uci) ==
    IF uci = Str("0000") THEN Returned(NullMove)
    ELSE IF Len(uci) \in {4, 5}
    THEN IF /\ IsSquareName(SubSeq(uci, 1, 2))
            /\ IsSquareName(SubSeq(uci, 3, 4))
            /\ Len(uci) = 5 => \E t \in 1..6 : PieceSymbol(t) = uci[5]
            /\ SubSeq(uci, 1, 2) # SubSeq(uci, 3, 4)
         THEN Returned(Move(SquareIndex(SubSeq(uci, 1, 2)), SquareIndex(SubSeq(uci, 3, 4)),
                            IF Len(uci) = 5 THEN SymbolType(uci[5]) ELSE None))
         ELSE Raised
    ELSE Raised

\* The origin squares of the other pieces of type t that legally reach the
\* target of m.
OthersTo(b, m, t) ==
    {c.from_square :
        c \in SeqToSet(generate_legal_moves(b,
                 {s \in Squares \ {m.from_square} : b.pieces[s] = MkPiece(t, b.turn)},
                 {m.to_square}))}

\* The origin part of a SAN: the file of a capturing pawn; the piece letter,
\* with the file and/or rank that tell the piece from the others.
SanOrigin(m, t, capture, others) ==
    LET sameRank == \E o \in others : square_rank(o) = square_rank(m.from_square)
        sameFile == \E o \in others : square_file(o) = square_file(m.from_square)
    IN IF t = PAWN THEN (IF capture THEN <<97 + square_file(m.from_square)>> ELSE <<>>)
       ELSE <<UpperChar(PieceSymbol(t))>>
            \o (IF others # {} /\ (sameRank \/ ~sameFile)
                THEN <<97 + square_file(m.from_square)>> ELSE <<>>)
            \o (IF others # {} /\ sameFile THEN <<49 + square_rank(m.from_square)>> ELSE <<>>)

SanText(b, m, t, capture) ==
    IF ~MoveBool(m) THEN Str("--")
    ELSE IF is_castling(b, m)
    THEN (IF square_file(m.to_square) < square_file(m.from_square)
          THEN Str("O-O-O") ELSE Str("O-O"))
    ELSE SanOrigin(m, t, capture, OthersTo(b, m, t))
         \o (IF capture THEN Str("x") ELSE <<>>)
         \o square_name(m.to_square)
         \o (IF m.promotion # None THEN <<61, UpperChar(PieceSymbol(m.promotion))>> ELSE <<>>)

\* Board._algebraic_without_suffix(move)
AlgebraicWithoutSuffix(b, m) == SanText(b, m, piece_type_at(b, m.from_square), is_capture(b, m))

\* Board._algebraic_and_push(move): the SAN text, and the board left with the
\* move pushed.
WithSuffix(m, text, after) ==
    [san |-> IF ~MoveBool(m) THEN text
             ELSE IF is_checkmate(after) THEN text \o Str("#")
             ELSE IF is_check(after) THEN text \o Str("+")
             ELSE text,
     board |-> after]

AlgebraicAndPush(b, m) == WithSuffix(m, AlgebraicWithoutSuffix(b, m), Push(b, m))

\* The pop that ends Board.san.
Popped(r) == [san |-> r.san, board |-> Pop(r.board)]

\* Board.san(move): _algebraic_and_push, then pop.  Gives the text and the
\* board as the call leaves it.
SanCall(b, m) == Popped(AlgebraicAndPush(b, m))

\* The text Board.san(move) returns.
san(b, m) == SanCall(b, m).san

\* Board.find_move(from_square, to_square, promotion)
find_move(b, f, t, p) ==
    LET promo == IF p = None /\ piece_type_at(b, f) = PAWN /\ square_rank(t) \in {0, 7}
                 THEN QUEEN ELSE p
    IN IF is_legal(b, FromChess960(b, f, t, promo)) THEN Returned(FromChess960(b, f, t, promo))
       ELSE Raised

Bit(x) == IF x THEN 1 ELSE 0

\* The prefix ([NBKRQ])?([a-h])?([1-8])?[\-x]? read with the parts q says are there.
PrefixReadsAs(pre, q) ==
    /\ Len(pre) = Bit(q.piece) + Bit(q.file) + Bit(q.rank) + Bit(q.sep)
    /\ q.piece => pre[1] \in {78, 66, 75, 82, 81}
    /\ q.file => IsFileChar(pre[1 + Bit(q.piece)])
    /\ q.rank => IsRankChar(pre[1 + Bit(q.piece) + Bit(q.file)])
    /\ q.sep => pre[Len(pre)] \in {45, 120}

SanGroups(pre, q, to, promo) ==
    [matched |-> TRUE,
     piece |-> IF q.piece THEN SymbolType(pre[1]) ELSE None,
     file |-> IF q.file THEN pre[1 + Bit(q.piece)] - 97 ELSE -1,
     rank |-> IF q.rank THEN pre[1 + Bit(q.piece) + Bit(q.file)] - 49 ELSE -1,
     to_square |-> to,
     promotion |-> promo]

\* The text up to n2 is a prefix and the target square.
SanHead(s, n2, promo) ==
    LET Reads(q) == PrefixReadsAs(SubSeq(s, 1, n2 - 2), q)
        Parts == [piece : BOOLEAN, file : BOOLEAN, rank : BOOLEAN, sep : BOOLEAN]
    IN IF n2 >= 2 /\ IsSquareName(SubSeq(s, n2 - 1, n2)) /\ \E q \in Parts : Reads(q)
       THEN SanGroups(SubSeq(s, 1, n2 - 2), CHOOSE q \in Parts : Reads(q),
                      SquareIndex(SubSeq(s, n2 - 1, n2)), promo)
       ELSE [matched |-> FALSE, piece |-> None, file |-> -1, rank |-> -1, to_square |-> 0,
             promotion |-> None]

\* The text up to n1 (the check mark taken off) ends in an optional promotion.
SanTail(s, n1) ==
    IF n1 >= 1 /\ LowerChar(s[n1]) \in {110, 98, 114, 113, 107}
    THEN SanHead(s, IF n1 >= 2 /\ s[n1 - 1] = 61 THEN n1 - 2 ELSE n1 - 1, SymbolType(s[n1]))
    ELSE SanHead(s, n1, None)

\* SAN_REGEX.match(san): the groups of
\*   ^([NBKRQ])?([a-h])?([1-8])?[\-x]?([a-h][1-8])(=?[nbrqkNBRQK])?[\+#]?\Z
\* read from the end of the text (the target square is the last file-rank
\* pair before the promotion and the suffix), then the prefix from the front.
\* The character classes of adjacent optional parts are disjoint, so a text
\* has at most one reading.
SanMatch(s) == SanTail(s, IF Len(s) >= 1 /\ s[Len(s)] \in {43, 35} THEN Len(s) - 1 ELSE Len(s))

ShortCastleNames == {Str("O-O"), Str("O-O+"), Str("O-O#"), Str("0-0"), Str("0-0+"), Str("0-0#")}

LongCastleNames == {Str("O-O-O"), Str("O-O-O+"), Str("O-O-O#"), Str("0-0-0"), Str("0-0-0+"), Str("0-0-0#")}

NullMoveNames == {Str("--"), Str("Z0"), Str("0000"), Str("@@@@")}

\* next(move for move in generate_castling_moves() if is_kingside/queenside)
FirstCastling(castles, kingside) ==
    LET Side(m) == (square_file(m.to_square) > square_file(m.from_square)) = kingside
    IN IF SelectSeq(castles, Side) # <<>> THEN Returned(Head(SelectSeq(castles, Side)))
       ELSE Raised

\* The fully specified move found must carry the promotion that was written.
SamePromotion(full, g) ==
    IF ~full.raised /\ full.value[1].promotion = g.promotion THEN full ELSE Raised

\* Exactly one legal move matches.
OnlyMatch(matched) == IF Len(matched) = 1 THEN Returned(matched[1]) ELSE Raised

\* The origin squares the groups of a SAN allow.
SanFromMask(b, g) ==
    {s \in Squares :
        /\ g.file # -1 => square_file(s) = g.file
        /\ g.rank # -1 => square_rank(s) = g.rank
        /\ IF g.piece # None THEN b.pieces[s] = MkPiece(g.piece, b.turn)
           ELSE /\ PieceType(b.pieces[s]) = PAWN
                /\ g.file = -1 => square_file(s) = square_file(g.to_square)}

\* parse_san on a text with the regex groups g.
ParseGroups(b, text, g) ==
    LET HasPromotion(m) == m.promotion = g.promotion
    IN IF ~g.matched
       THEN (IF text \in NullMoveNames THEN Returned(NullMove) ELSE Raised)
       ELSE IF g.piece = None /\ g.file # -1 /\ g.rank # -1
       THEN SamePromotion(find_move(b, square(g.file, g.rank), g.to_square, g.promotion), g)
       ELSE OnlyMatch(SelectSeq(generate_legal_moves(b, SanFromMask(b, g),
                                    {g.to_square} \ OccupiedCo(b, b.turn)), HasPromotion))

\* Board.parse_san(san)
parse_san(b, text) ==
    IF text \in ShortCastleNames \cup LongCastleNames
    THEN FirstCastling(generate_castling_moves(b, Squares, Squares), text \in ShortCastleNames)
    ELSE ParseGroups(b, text, SanMatch(text))

(***************************************************************************)
(* MoveParser (src/move_parser.py)                                         *)
(***************************************************************************)

\* The Cyrillic letters the program's literals use, by transliterated name.
CYR == [a |-> 1072, b |-> 1073, v |-> 1074, g |-> 1075, d |-> 1076, e |-> 1077,
        z |-> 1079, y |-> 1080, i |-> 1110, k |-> 1082, l |-> 1083, m |-> 1084,
        n |-> 1085, o |-> 1086, p |-> 1087, r |-> 1088, s |-> 1089, t |-> 1090,
        u |-> 1091, f |-> 1092, h |-> 1093, sh |-> 1096, soft |-> 1100]

\* self.cyrillic_to_latin, in insertion order.
cyrillic_to_latin ==
    << <<CYR.a, 97>>, <<UpperChar(CYR.a), 65>>,
       <<CYR.b, 98>>, <<UpperChar(CYR.b), 66>>,
       <<CYR.s, 99>>, <<UpperChar(CYR.s), 67>>,
       <<CYR.d, 100>>, <<UpperChar(CYR.d), 68>>,
       <<CYR.e, 101>>, <<UpperChar(CYR.e), 69>>,
       <<CYR.f, 102>>, <<UpperChar(CYR.f), 70>>,
       <<CYR.g, 103>>, <<UpperChar(CYR.g), 71>>,
       <<CYR.h, 104>>, <<UpperChar(CYR.h), 72>> >>

\* MoveParser._convert_cyrillic_to_latin: one replace per table entry, in order.
RECURSIVE ConvertFrom(_, _)
ConvertFrom(text, i) ==
    IF i > Len(cyrillic_to_latin) THEN text
    ELSE ConvertFrom(Replace(text, <<cyrillic_to_latin[i][1]>>, <<cyrillic_to_latin[i][2]>>), i + 1)

\* A conversion that knows the lower-case letters only.
convert_cyrillic_to_latin_LowerOnly(text) ==
    [i \in 1..Len(text) |->
        IF \E j \in 1..Len(cyrillic_to_latin) :
              cyrillic_to_latin[j][1] = text[i] /\ text[i] = LowerChar(text[i])
        THEN cyrillic_to_latin[CHOOSE j \in 1..Len(cyrillic_to_latin) :
                                  cyrillic_to_latin[j][1] = text[i]][2]
        ELSE text[i]]

convert_cyrillic_to_latin(text) == ConvertFrom(text, 1)

\* The Cyrillic words of the program's literals.
Words ==
    [rokirovka |-> <<CYR.r, CYR.o, CYR.k, CYR.i, CYR.r, CYR.o, CYR.v, CYR.k, CYR.a>>,
     korotka |-> <<CYR.k, CYR.o, CYR.r, CYR.o, CYR.t, CYR.k, CYR.a>>,
     mala |-> <<CYR.m, CYR.a, CYR.l, CYR.a>>,
     dovha |-> <<CYR.d, CYR.o, CYR.v, CYR.g, CYR.a>>,
     velyka |-> <<CYR.v, CYR.e, CYR.l, CYR.y, CYR.k, CYR.a>>,
     na |-> <<CYR.n, CYR.a>>,
     z |-> <<CYR.z>>,
     v |-> <<CYR.v>>]

Space == <<32>>

\* castling_names of _try_castling_ukrainian, in insertion order.
castling_names ==
    << <<Words.korotka \o Space \o Words.rokirovka, Str("O-O")>>,
       <<Words.rokirovka \o Space \o Words.korotka, Str("O-O")>>,
       <<Words.mala \o Space \o Words.rokirovka, Str("O-O")>>,
       <<Words.rokirovka, Str("O-O")>>,
       <<Words.dovha \o Space \o Words.rokirovka, Str("O-O-O")>>,
       <<Words.rokirovka \o Space \o Words.dovha, Str("O-O-O")>>,
       <<Words.velyka \o Space \o Words.rokirovka, Str("O-O-O")>> >>

\* config.PIECE_NAMES_UK: the piece-name phrases and the symbols they stand for.
piece_names ==
    << <<<<CYR.p, CYR.i, CYR.sh, CYR.a, CYR.k>>, 80>>,
       <<<<CYR.k, CYR.i, CYR.n, CYR.soft>>, 78>>,
       <<<<CYR.s, CYR.l, CYR.o, CYR.n>>, 66>>,
       <<<<CYR.t, CYR.u, CYR.r, CYR.a>>, 82>>,
       <<<<CYR.f, CYR.e, CYR.r, CYR.z, CYR.soft>>, 81>>,
       <<<<CYR.k, CYR.o, CYR.r, CYR.o, CYR.l, CYR.soft>>, 75>> >>

\* What a parser method hands back: the move it returns (<<>> is None), whether
\* an exception left it, what it printed, and the board as it leaves it.
Outcome(mv, b) == [raised |-> FALSE, move |-> mv, report |-> <<>>, hint |-> <<>>, board |-> b]

Escaped(b) == [raised |-> TRUE, move |-> <<>>, report |-> <<>>, hint |-> <<>>, board |-> b]

\* Python truthiness of an Optional[chess.Move].
Truthy(mv) == mv # <<>> /\ MoveBool(mv[1])

\* MoveParser._try_castling_ukrainian: every phrase found is tried in turn; a
\* failed parse_san is swallowed and the loop goes on.
RECURSIVE CastlingLoop(_, _, _)
\* try: return board.parse_san(san_notation); except: pass
CastlingTry(r, lower, b, i) == IF r.raised THEN CastlingLoop(lower, b, i + 1) ELSE r.value

CastlingLoop(lower, b, i) ==
    IF i > Len(castling_names) THEN <<>>
    ELSE IF Contains(lower, castling_names[i][1])
         THEN CastlingTry(parse_san(b, castling_names[i][2]), lower, b, i)
         ELSE CastlingLoop(lower, b, i + 1)

try_castling_ukrainian(move_text, b) == Outcome(CastlingLoop(Lower(move_text), b, 1), b)

\* MoveParser._try_standard_notation: the first variant that parses to a
\* truthy move.
RECURSIVE StandardLoop(_, _, _)
\* try: move = board.parse_san(variant); if move: return move; except: continue
StandardTry(r, variants, b, i) ==
    IF ~r.raised /\ Truthy(r.value) THEN r.value ELSE StandardLoop(variants, b, i + 1)

StandardLoop(variants, b, i) ==
    IF i > Len(variants) THEN <<>>
    ELSE StandardTry(parse_san(b, variants[i]), variants, b, i)

\* The variants without the text as typed.
try_standard_notation_NoAsIs(move_text, b) ==
    Outcome(StandardLoop(<<Capitalize(move_text), Upper(move_text)>>, b, 1), b)

\* The variants with the capitalised text tried first.
try_standard_notation_CapFirst(move_text, b) ==
    Outcome(StandardLoop(<<Capitalize(move_text), move_text, Upper(move_text)>>, b, 1), b)

\* The variants tried from the last to the first.
try_standard_notation_Reversed(move_text, b) ==
    Outcome(StandardLoop(<<Upper(move_text), Capitalize(move_text), move_text>>, b, 1), b)

try_standard_notation(move_text, b) ==
    Outcome(StandardLoop(<<move_text, Capitalize(move_text), Upper(move_text)>>, b, 1), b)

\* if move in board.legal_moves: return move
IfLegal(r, b) ==
    IF r.raised THEN Escaped(b)
    ELSE IF is_legal(b, r.value[1]) THEN Outcome(r.value, b)
    ELSE Outcome(<<>>, b)

\* The membership test left out.
IfLegal_Unchecked(r, b) == IF r.raised THEN Escaped(b) ELSE Outcome(r.value, b)

\* The try block without its membership test.
UciTry_Unchecked(text, b) == IfLegal_Unchecked(from_uci(text), b)

\* The try block shared by the coordinate forms:
\*   move = chess.Move.from_uci(text); if move in board.legal_moves: return move
\* It returns the move, falls through (None), or is left by from_uci's exception.
UciTry(text, b) == IfLegal(from_uci(text), b)

\* A handler that lets the exception through.
ExceptPass_Reraise(r) == r

\* except: pass, then return None: an exception of the try block is swallowed.
ExceptPass(r) == IF r.raised THEN Outcome(<<>>, r.board) ELSE r

\* MoveParser._try_uci_notation
try_uci_notation(move_text, b) == ExceptPass(UciTry(move_text, b))

\* MoveParser._try_dash_notation
DashParts(parts, b) ==
    IF Len(parts) = 2 THEN ExceptPass(UciTry(Strip(parts[1]) \o Strip(parts[2]), b))
    ELSE Outcome(<<>>, b)

try_dash_notation(move_text, b) ==
    IF Contains(move_text, <<45>>) THEN DashParts(Split(move_text, 45), b)
    ELSE Outcome(<<>>, b)

\* piece_map.get(piece_symbol.upper()) of _find_move_by_piece_and_target
piece_map(symbol) ==
    IF UpperChar(symbol) \in {80, 78, 66, 82, 81, 75} THEN SymbolType(symbol) ELSE None

\* The loop printing one line per candidate: (SAN, origin square name), each
\* SAN from a Board.san call on the board the previous call left.
RECURSIVE ReportLoop(_, _, _)
ReportRest(c, rest, m) ==
    [lines |-> << <<c.san, square_name(m.from_square)>> >> \o rest.lines, board |-> rest.board]

ReportNext(c, moves, i) == ReportRest(c, ReportLoop(c.board, moves, i + 1), moves[i])

ReportLoop(b, moves, i) ==
    IF i > Len(moves) THEN [lines |-> <<>>, board |-> b]
    ELSE ReportNext(SanCall(b, moves[i]), moves, i)

\* The hint line: Board.san of the first candidate, and its coordinates.
ReportHint(listed, first, m, to_square_name) ==
    [raised |-> FALSE, move |-> <<>>, report |-> listed.lines,
     hint |-> <<first.san, square_name(m.from_square) \o <<45>> \o to_square_name>>,
     board |-> first.board]

\* A report whose hint takes its SAN from a push that is never popped.
Report_NoPop(listed, m, to_square_name) ==
    ReportHint(listed, AlgebraicAndPush(listed.board, m), m, to_square_name)

\* The ambiguity report of _find_move_by_piece_and_target (lines 244-252).
Report(listed, m, to_square_name) ==
    ReportHint(listed, SanCall(listed.board, m), m, to_square_name)

\* What is done with the moves found (lines 239-254).
Found(b, possible_moves, to_square_name) ==
    IF Len(possible_moves) = 1 THEN Outcome(<<possible_moves[1]>>, b)
    ELSE IF Len(possible_moves) > 1
    THEN Report(ReportLoop(b, possible_moves, 1), possible_moves[1], to_square_name)
    ELSE Outcome(<<>>, b)

\* A lookup that settles for the first candidate when there are several.
Found_First(b, possible_moves, to_square_name) ==
    IF Len(possible_moves) >= 1 THEN Outcome(<<possible_moves[1]>>, b)
    ELSE Outcome(<<>>, b)

\* The moves found, listed from the last to the first.
PossibleMoves_Reversed(b, piece_type, to) ==
    LET Qualifies(m) ==
            /\ m.to_square = to
            /\ piece_at(b, m.from_square) # 0
            /\ PieceType(piece_at(b, m.from_square)) = piece_type
            /\ PieceColor(piece_at(b, m.from_square)) = b.turn
        found == SelectSeq(legal_moves(b), Qualifies)
    IN [i \in 1..Len(found) |-> found[Len(found) + 1 - i]]

\* The legal moves of the side to move's pieces of a type to a square (lines 231-237).
PossibleMoves(b, piece_type, to) ==
    LET Qualifies(m) ==
            /\ m.to_square = to
            /\ piece_at(b, m.from_square) # 0
            /\ PieceType(piece_at(b, m.from_square)) = piece_type
            /\ PieceColor(piece_at(b, m.from_square)) = b.turn
    IN SelectSeq(legal_moves(b), Qualifies)

FindWith_First(b, piece_type, to, to_square_name) ==
    IF piece_type = None \/ to.raised THEN Outcome(<<>>, b)
    ELSE Found_First(b, PossibleMoves(b, piece_type, to.value[1]), to_square_name)

find_move_by_piece_and_target_First(b, piece_symbol, to_square_name) ==
    FindWith_First(b, piece_map(piece_symbol), parse_square(to_square_name), to_square_name)

FindWith(b, piece_type, to, to_square_name) ==
    IF piece_type = None \/ to.raised THEN Outcome(<<>>, b)
    ELSE Found(b, PossibleMoves(b, piece_type, to.value[1]), to_square_name)

\* MoveParser._find_move_by_piece_and_target
find_move_by_piece_and_target(b, piece_symbol, to_square_name) ==
    FindWith(b, piece_map(piece_symbol), parse_square(to_square_name), to_square_name)

\* The first entry of piece_names whose name occurs in the text, or 0.
RECURSIVE FirstPieceName(_, _)
FirstPieceName(text, i) ==
    IF i > Len(piece_names) THEN 0
    ELSE IF Contains(text, piece_names[i][1]) THEN i
    ELSE FirstPieceName(text, i + 1)

\* A reading that takes the first two of three or more squares as the move.
HumanSquares_FirstTwo(b, piece_type, squares) ==
    IF Len(squares) = 1
    THEN find_move_by_piece_and_target(b, piece_type, squares[1])
    ELSE IF Len(squares) >= 2
    THEN ExceptPass(UciTry(squares[1] \o squares[2], b))
    ELSE Outcome(<<>>, b)

\* A reading that takes the second of two squares as the origin.
HumanSquares_Swapped(b, piece_type, squares) ==
    IF Len(squares) = 1
    THEN find_move_by_piece_and_target(b, piece_type, squares[1])
    ELSE IF Len(squares) = 2
    THEN ExceptPass(UciTry(squares[2] \o squares[1], b))
    ELSE Outcome(<<>>, b)

\* MoveParser._try_human_language
\* Lines 181-197: one square is a destination, two are a move.
HumanSquares(b, piece_type, squares) ==
    IF Len(squares) = 1
    THEN find_move_by_piece_and_target(b, piece_type, squares[1])
    ELSE IF Len(squares) = 2
    THEN ExceptPass(UciTry(squares[1] \o squares[2], b))
    ELSE Outcome(<<>>, b)

\* Lines 176-179: the fillers go, the squares are looked for.
HumanText(b, piece_type, text) ==
    HumanSquares(b, piece_type,
        FindSquares(Strip(Replace(Replace(Replace(text, Words.na, Space), Words.z, Space),
                                  Words.v, Space))))

\* Lines 164-173: the piece name found is taken out; without one it is a pawn.
HumanPiece(b, move_text, found) ==
    IF found = 0 THEN HumanText(b, 80, move_text)
    ELSE HumanText(b, piece_names[found][2],
                   Strip(Replace(move_text, piece_names[found][1], <<>>)))

try_human_language(move_text, b) == HumanPiece(b, move_text, FirstPieceName(move_text, 1))

(***************************************************************************)
(* Positions and inputs                                                    *)
(***************************************************************************)

\* The positions a game is set up from (ChessBot.setup_position: the standard
\* position, or a FEN the player enters).
PositionFens ==
    << STARTING_FEN,
       \* a knight on b1 and a bishop on a1 that both reach c3
       Str("4k3/8/8/8/8/8/8/BN2K3 w - - 0 1"),
       \* a bishop and a b-pawn that both capture on c4; a b-pawn push to b5
       Str("4k3/8/8/1p6/2p5/1P1B4/3B4/4K3 w - - 0 1"),
       \* both castlings legal for White
       Str("r3k2r/8/8/8/8/8/8/R3K2R w KQkq - 0 1"),
       \* Black to move, short castling legal, long castling not
       Str("r3k2r/8/8/8/8/8/8/3RK3 b kq - 0 1"),
       \* two knights that both reach d2
       Str("4k3/8/8/8/8/5N2/8/1N2K3 w - - 0 1"),
       \* two pawns that both capture on e5; a pawn that promotes on e8 or d8
       Str("3n3k/4P3/8/4p3/3P1P2/8/8/4K3 w - - 0 1"),
       \* Black to move after 1. e4, en passant square set
       Str("rnbqkbnr/pppp1ppp/8/8/3pP3/8/PPP2PPP/RNBQKBNR b KQkq e3 0 3"),
       \* White in check from a rook
       Str("4k3/8/8/8/8/8/4r3/R3K2R w KQ - 0 1") >>

Positions == {BoardFromFen(PositionFens[i]) : i \in 1..Len(PositionFens)}

\* Spaces typed around a token: at most this many on each side.
MaxPad == 1

Pad(text, k) == [i \in 1..k |-> 32] \o text \o [i \in 1..k |-> 32]

\* An input: the text typed, and what the typist meant by it (the move whose
\* notation it is; the piece and destination of a phrase; for a castling phrase
\* the index of the phrase in castling_names, held in to).
Input(text, kind, mv, piece, to) ==
    [text |-> text, kind |-> kind, move |-> mv, piece |-> piece, to |-> to]

\* SAN text with its piece letter typed in lower case.
SanLowered(text) ==
    IF text # <<>> /\ text[1] \in {78, 66, 82, 81, 75}
    THEN <<LowerChar(text[1])>> \o Tail(text)
    ELSE text

\* Texts that are no move of any notation, or an odd spelling of one.
OddTexts ==
    { <<>>, Str("--"), Str("0000"), Str("Z0"), Str("e4e4"), Str("e9"), Str("E1H1"),
      Str("E1G1"), Str("B1C3"), Str("B1c3"), Str("e-7e8q"), Str("e7-e8q"), Str("E7E8Q"),
      Str("d-4e5"), Str("a1 b2 c3"), Str("a1b2c3"), Str("e2-e4-e5"), Str("P@e4"),
      Str("O-O"), Str("o-o"), Str("0-0-0"), Str("Kg1"), Str("exd3"), Str("E4"),
      Str("e2-e5"), Str("e2 e4 e5"), Str("e7e8-d8"),
      <<CYR.e, 52>>, <<UpperChar(CYR.e), 52>>, <<CYR.k, CYR.i, CYR.n, CYR.soft>>,
      <<UpperChar(CYR.k), 102, 51>> }

\* A text typed on a Cyrillic keyboard: each Latin letter that a letter of
\* cyrillic_to_latin looks like is typed as that letter.
CyrillicTyped(text) ==
    [i \in 1..Len(text) |->
        IF \E j \in 1..Len(cyrillic_to_latin) : cyrillic_to_latin[j][2] = text[i]
        THEN cyrillic_to_latin[CHOOSE j \in 1..Len(cyrillic_to_latin) :
                                  cyrillic_to_latin[j][2] = text[i]][1]
        ELSE text[i]]

\* A move typed in standard notation: as the library writes it, with the piece
\* letter lowered, and on a Cyrillic keyboard.
SanInputs(text, m) ==
    {Input(text, "san", <<m>>, None, m.to_square),
     Input(SanLowered(text), "san_lower", <<m>>, None, m.to_square),
     Input(CyrillicTyped(text), "san_cyr", <<m>>, None, m.to_square)}

\* A move typed by its two squares: with a dash, backwards with a dash, with
\* the origin's file mistyped as b, with a third square after it, and after a
\* piece name that need not be its piece's.
SquareInputs(from, to, m) ==
    {Input(from \o <<45>> \o to, "dash", <<m>>, None, m.to_square),
     Input(to \o <<45>> \o from, "dash_back", <<m>>, None, m.from_square),
     Input(<<98, from[2], 45>> \o to, "dash_b", <<m>>, None, m.to_square),
     Input(from \o <<45>> \o to \o from, "three", <<m>>, None, m.to_square),
     Input(piece_names[2][1] \o Space \o from \o Space \o to, "from_to", <<m>>, KNIGHT,
           m.to_square)}

\* The inputs for a board whose legal moves are lm.
InputsFor(b, lm) ==
    LET targets == {m.to_square : m \in lm}
    IN {Input(MoveUci(m), "uci", <<m>>, None, m.to_square) : m \in lm}
       \cup UNION {SanInputs(san(b, m), m) : m \in lm}
       \cup UNION {SquareInputs(square_name(m.from_square), square_name(m.to_square), m) :
                     m \in lm}
       \cup {Input(piece_names[i][1] \o Space \o Words.na \o Space \o square_name(t),
                   "phrase", <<>>, SymbolType(piece_names[i][2]), t) :
                i \in 1..Len(piece_names), t \in targets}
       \cup {Input(square_name(t), "square", <<>>, PAWN, t) : t \in targets}
       \cup {Input(CyrillicTyped(square_name(t)), "square_cyr", <<>>, PAWN, t) : t \in targets}
       \cup {Input(castling_names[i][1], "castle", <<>>, None, i) : i \in 1..Len(castling_names)}
       \cup {Input(Capitalize(castling_names[i][1]), "castle", <<>>, None, i) :
                i \in 1..Len(castling_names)}
       \cup {Input(t, "odd", <<>>, None, 0) : t \in OddTexts}

\* The inputs tried on a board: every legal move in each notation, every piece
\* phrase with every destination, the castling phrases, and the odd texts.
InputsOn(b) == InputsFor(b, SeqToSet(legal_moves(b)))

(***************************************************************************)
(* The engine adapter (chess_engine.py) and the end of a game              *)
(***************************************************************************)

\* ChessEngine.__init__ and _connect with the skill_level argument (<<>> for
\* None, <<s>> for a number) where config.STOCKFISH_SKILL_LEVEL is default:
\* `skill_level or default` takes the default for every falsy argument.  The
\* object holds its level, the "Skill Level" option its process was configured
\* with, whether its handle is set (not None), how often quit() was sent to
\* its process, and the argument it was given.
ChessEngine(skill_level, default) ==
    LET level == IF skill_level = <<>> \/ skill_level[1] = 0 THEN default ELSE skill_level[1]
    IN [skill_level |-> level, option |-> level, engine |-> TRUE, quits |-> 0,
        given |-> skill_level]

\* A close() that sends quit() whether or not the handle is still set.
close_Again(e) == [e EXCEPT !.engine = FALSE, !.quits = @ + 1]

\* ChessEngine.close(), which __del__ also calls.
close(e) == IF e.engine THEN [e EXCEPT !.engine = FALSE, !.quits = @ + 1] ELSE e

\* ChessBot.check_game_over(): checkmate, stalemate, insufficient material, a
\* claimable fifty-move draw or a claimable threefold repetition, each as the
\* rules library decides it.
check_game_over(b) ==
    LET legal == legal_moves(b)
        Of(x, c, types) ==
            {sq \in Squares : /\ x.pieces[sq] # 0
                              /\ PieceColor(x.pieces[sq]) = c
                              /\ PieceType(x.pieces[sq]) \in types}
        Dark(sq) == (square_file(sq) + square_rank(sq)) % 2 = 0
        bishops == Of(b, TRUE, {BISHOP}) \cup Of(b, FALSE, {BISHOP})
        has_insufficient_material(c) ==
            IF Of(b, c, {PAWN, ROOK, QUEEN}) # {} THEN FALSE
            ELSE IF Of(b, c, {KNIGHT}) # {}
            THEN /\ Cardinality(Of(b, c, 1..6)) <= 2
                 /\ Of(b, ~c, {PAWN, KNIGHT, BISHOP, ROOK}) = {}
            ELSE IF Of(b, c, {BISHOP}) # {}
            THEN /\ (\A sq \in bishops : Dark(sq)) \/ (\A sq \in bishops : ~Dark(sq))
                 /\ Of(b, TRUE, {PAWN, KNIGHT}) \cup Of(b, FALSE, {PAWN, KNIGHT}) = {}
            ELSE TRUE
        is_zeroing(x, m) ==
            \/ PieceType(x.pieces[m.from_square]) = PAWN
            \/ PieceType(x.pieces[m.to_square]) = PAWN
            \/ \E sq \in {m.from_square, m.to_square} :
                  x.pieces[sq] # 0 /\ PieceColor(x.pieces[sq]) # x.turn
        is_fifty_moves(x) == x.halfmove_clock >= 100 /\ legal_moves(x) # <<>>
        has_legal_en_passant(x) ==
            x.ep_square # NoSquare
                /\ \E m \in SeqToSet(legal_moves(x)) : is_en_passant(x, m)
        reduces_castling_rights(x, m) ==
            LET cr == clean_castling_rights(x)
            IN \/ {m.from_square, m.to_square} \cap cr # {}
               \/ \E c \in BOOLEAN :
                     /\ \E s \in cr : square_rank(s) = (IF c THEN 0 ELSE 7)
                     /\ {m.from_square, m.to_square} \cap Of(x, c, {KING}) # {}
        transposition_key(x) ==
            <<x.pieces, x.turn, clean_castling_rights(x),
              IF has_legal_en_passant(x) THEN x.ep_square ELSE NoSquare>>
        RECURSIVE Earlier(_)
        Earlier(x) ==
            IF x.move_stack = <<>> THEN <<>>
            ELSE IF \/ is_zeroing(Pop(x), x.move_stack[Len(x.move_stack)])
                    \/ reduces_castling_rights(Pop(x), x.move_stack[Len(x.move_stack)])
                    \/ has_legal_en_passant(Pop(x))
                 THEN <<>>
                 ELSE <<transposition_key(Pop(x))>> \o Earlier(Pop(x))
        seen == <<transposition_key(b)>> \o Earlier(b)
        Count(k) == Cardinality({i \in 1..Len(seen) : seen[i] = k})
    IN \/ is_checkmate(b)
       \/ ~is_check(b) /\ legal = <<>>
       \/ has_insufficient_material(TRUE) /\ has_insufficient_material(FALSE)
       \/ is_fifty_moves(b)
       \/ /\ b.halfmove_clock >= 99
          /\ \E i \in 1..Len(legal) :
                ~is_zeroing(b, legal[i]) /\ is_fifty_moves(Push(b, legal[i]))
       \/ Count(seen[1]) >= 3
       \/ /\ Len(seen) >= 2
          /\ \E i \in 1..Len(legal) : Count(transposition_key(Push(b, legal[i]))) >= 2

(***************************************************************************)
(* State: one parse_move call at a time on the game's board                *)
(***************************************************************************)

VARIABLES
    board,      \* the chess.Board the call is given
    pc,         \* where parse_move stands: idle, a strategy, or done
    input,      \* the argument of the call in progress and what was meant by it
    move_text,  \* parse_move's local move_text
    result,     \* the value parse_move returns: <<>> for None, <<m>> for a move
    raised,     \* an exception left parse_move
    report,     \* the candidate lines an ambiguity report printed
    hint,       \* the two retries the ambiguity report suggested
    tried,      \* the strategies this call has run, in order
    entry,      \* the board as it was when the call began
    history,    \* the calls that have returned, where they are kept: token and outcome
    game        \* the ChessBot around the board: where play() stands, its
                \* attributes, the engines it connected, the play() calls entered,
                \* the exception on its way out, whether the player resigned,
                \* and what was shown last (a command's output, the player's
                \* move, the engine's reply)

vars == <<board, pc, input, move_text, result, raised, report, hint, tried, entry, history,
          game>>

NoInput == Input(<<>>, "none", <<>>, None, 0)

Init ==
    /\ board \in Positions
    /\ pc = "idle"
    /\ input = NoInput
    /\ move_text = <<>>
    /\ result = <<>>
    /\ raised = FALSE
    /\ report = <<>>
    /\ hint = <<>>
    /\ tried = <<>>
    /\ entry = board
    /\ history = <<>>
    /\ game = [at |-> "start", player_color |-> TRUE, game_over |-> FALSE,
               hints_enabled |-> TRUE, engine |-> None, engines |-> <<>>,
               frames |-> 1, exc |-> "none", resigned |-> FALSE, shown |-> "none"]

\* parse_move lines 53-56 on one of the inputs, typed with one of the paddings:
\* strip, then transliterate.
CallWith(inputs, pads) ==
    /\ pc = "idle"
    /\ \E i \in inputs, k \in pads :
          /\ input' = [i EXCEPT !.text = Pad(i.text, k)]
          /\ move_text' = convert_cyrillic_to_latin(Strip(Pad(i.text, k)))
    /\ pc' = "castling"
    /\ result' = <<>>
    /\ raised' = FALSE
    /\ report' = <<>>
    /\ hint' = <<>>
    /\ tried' = <<>>
    /\ entry' = board
    /\ UNCHANGED <<board, history>>

\* Every input is typed as it is; the free texts, the castling phrases, the
\* bare squares and the coordinate and standard notations are also typed with
\* spaces around them.
CallOn(inputs) ==
    \/ CallWith(inputs, {0}) /\ UNCHANGED game
    \/ /\ CallWith({i \in inputs : i.kind \in {"odd", "castle", "square", "uci", "san"}},
                   1..MaxPad)
       /\ UNCHANGED game

Call == CallOn(InputsOn(board))

\* One strategy of parse_move has run with outcome r: a truthy move is
\* returned, an exception leaves the call, anything else goes on to next.
Step(name, r, next, text) ==
    /\ tried' = Append(tried, name)
    /\ board' = r.board
    /\ report' = report \o r.report
    /\ hint' = IF r.hint # <<>> THEN r.hint ELSE hint
    /\ IF r.raised
       THEN /\ raised' = TRUE
            /\ result' = <<>>
            /\ pc' = "done"
            /\ UNCHANGED move_text
       ELSE IF Truthy(r.move)
       THEN /\ result' = r.move
            /\ pc' = "done"
            /\ UNCHANGED <<raised, move_text>>
       ELSE /\ pc' = next
            /\ move_text' = text
            /\ UNCHANGED <<raised, result>>
    /\ UNCHANGED <<input, entry, history, game>>

\* parse_move lines 58-61
Castling ==
    /\ pc = "castling"
    /\ Step("castling", try_castling_ukrainian(move_text, board), "standard", move_text)

\* A parse_move that goes from the standard notation straight to the phrases.
Standard_SkipsUci ==
    /\ pc = "standard"
    /\ Step("standard", try_standard_notation(move_text, board), "human", Lower(move_text))

\* parse_move lines 63-69: after the standard notation the text is lower-cased.
Standard ==
    /\ pc = "standard"
    /\ Step("standard", try_standard_notation(move_text, board), "uci", Lower(move_text))

\* parse_move lines 71-74
Uci ==
    /\ pc = "uci"
    /\ Step("uci", try_uci_notation(move_text, board), "human", move_text)

\* parse_move lines 76-79
Human ==
    /\ pc = "human"
    /\ Step("human", try_human_language(move_text, board), "dash", move_text)

\* parse_move lines 81-86: the last strategy; without a move None is returned.
Dash ==
    /\ pc = "dash"
    /\ Step("dash", try_dash_notation(move_text, board), "done", move_text)

\* The caller takes the result, keeping kept of the calls that returned; the
\* next call starts afresh.
ReturnWith(kept) ==
    /\ pc = "done"
    /\ pc' = "idle"
    /\ input' = NoInput
    /\ move_text' = <<>>
    /\ result' = <<>>
    /\ raised' = FALSE
    /\ report' = <<>>
    /\ hint' = <<>>
    /\ tried' = <<>>
    /\ entry' = board
    /\ history' = kept
    /\ UNCHANGED <<board, game>>

Return == ReturnWith(history)

Next == Call \/ Castling \/ Standard \/ Uci \/ Human \/ Dash \/ Return

Spec == Init /\ [][Next]_vars

(***************************************************************************)
(* The same parser called again and again on the game's board, the calls   *)
(* that returned being kept for comparison                                 *)
(***************************************************************************)

\* How many returned calls are kept.
MaxHistory == 2

\* The tokens typed again and again: a knight phrase, a promotion square, a
\* dashed text, a king move.
HistoryInputs ==
    {Input(t, "odd", <<>>, None, 0) :
        t \in {piece_names[2][1] \o Space \o Words.na \o Space \o Str("d2"),
               Str("e8"), Str("d-4e5"), Str("Kd2")}}

\* One of the tokens is typed as it is; the strategies run; the caller takes
\* the result, which is kept while there is room.
HistoryNext ==
    \/ CallWith(HistoryInputs, {0}) /\ UNCHANGED game
    \/ Castling \/ Standard \/ Uci \/ Human \/ Dash
    \/ ReturnWith(IF Len(history) < MaxHistory
                  THEN Append(history, [text |-> input.text, result |-> result,
                                        report |-> report])
                  ELSE history)

HistorySpec == Init /\ [][HistoryNext]_vars

(***************************************************************************)
(* The game: ChessBot.play() around the parser, the engine and the board   *)
(***************************************************************************)

\* How many moves are pushed in one game, how many games are played, and how
\* many of the legal moves, in the order of their enumeration, the engine
\* picks its answer from.
MaxPlies == 2

MaxRounds == 2

MaxReplies == 2

\* play() goes on with board b and attributes g, no parse_move call being in
\* progress.
Resume(b, g) ==
    /\ board' = b
    /\ game' = g
    /\ pc' = "idle"
    /\ input' = NoInput
    /\ move_text' = <<>>
    /\ result' = <<>>
    /\ raised' = FALSE
    /\ report' = <<>>
    /\ hint' = <<>>
    /\ tried' = <<>>
    /\ entry' = b
    /\ UNCHANGED history

\* play() lines 362-381: the level is chosen and an engine is connected with
\* one of the levels, config.py holding one of the defaults; the attribute is
\* bound to the new object, and the object it held is released, whose __del__
\* closes it.  When the engine cannot be started play() returns.
Connect(levels, defaults) ==
    /\ game.at = "start"
    /\ \/ \E s \in levels, d \in defaults :
             Resume(board,
                    [game EXCEPT !.at = "setup",
                                 !.engines = (IF game.engine = None THEN @
                                              ELSE [@ EXCEPT ![game.engine] = close(@)])
                                             \o <<ChessEngine(s, d)>>,
                                 !.engine = Len(game.engines) + 1])
       \/ Resume(board, [game EXCEPT !.at = "finally"])

\* play() lines 384-436: the standard position or a FEN the player enters, the
\* colour the player picks; when it is Black the engine moves first.
Setup ==
    LET fens == { STARTING_FEN,
                  \* White mates with Ra8
                  Str("7k/8/6K1/8/8/8/8/R7 w - - 0 1"),
                  \* Black to move
                  Str("4k3/8/8/8/8/8/4P3/4K3 b - - 0 1"),
                  \* Black is checkmated
                  Str("R6k/8/6K1/8/8/8/8/8 b - - 0 1"),
                  \* Black is stalemated
                  Str("7k/5Q2/6K1/8/8/8/8/8 b - - 0 1"),
                  \* two bare kings
                  Str("4k3/8/8/8/8/8/8/4K3 w - - 0 1"),
                  \* ninety-nine half-moves without a capture or a pawn move
                  Str("4k3/8/8/8/8/8/8/R3K3 w - - 99 60") }
    IN /\ game.at = "setup"
       /\ \E fen \in fens, color \in BOOLEAN :
             Resume(BoardFromFen(fen),
                    [game EXCEPT !.player_color = color,
                                 !.at = IF color THEN "top" ELSE "engine"])

\* A loop that always lets the player move next.
LoopHead_PlayerAlways ==
    /\ game.at = "top"
    /\ Resume(board, [game EXCEPT !.at = IF game.game_over \/ check_game_over(board)
                                         THEN "final"
                                         ELSE "prompt"])

\* play() lines 439-445 and 464: the loop ends when the game is over; the
\* player is prompted when it is the player's colour to move, and the engine
\* moves otherwise.
LoopHead ==
    /\ game.at = "top"
    /\ Resume(board, [game EXCEPT !.at = IF game.game_over \/ check_game_over(board)
                                         THEN "final"
                                         ELSE IF board.turn = game.player_color
                                         THEN "prompt"
                                         ELSE "engine"])

\* The command words of get_player_move (lines 271-296), in the order the
\* code tests them.
commands ==
    LET zberehty == <<CYR.z, CYR.b, CYR.e, CYR.r, CYR.e, CYR.g, CYR.t, CYR.y>>
        pidkazk == <<CYR.p, CYR.i, CYR.d, CYR.k, CYR.a, CYR.z, CYR.k>>
        analiz == <<CYR.a, CYR.n, CYR.a, CYR.l, CYR.i, CYR.z>>
        partiy == <<CYR.p, CYR.a, CYR.r, CYR.t, CYR.i>>
    IN << <<"help", {Str("help"),
                     <<CYR.d, CYR.o, CYR.v, CYR.i, CYR.d, CYR.k, CYR.a>>,
                     <<CYR.d, CYR.o, CYR.p, CYR.o, CYR.m, CYR.o, CYR.g, CYR.a>>}>>,
          <<"moves", {Str("moves"), <<CYR.h, CYR.o, CYR.d, CYR.y>>}>>,
          <<"hints", {Str("hints"), pidkazk \o <<CYR.y>>, pidkazk \o <<CYR.a>>}>>,
          <<"fen", {Str("fen")}>>,
          <<"analyze", {Str("analyze"), analiz,
                        analiz \o <<CYR.u, CYR.v, CYR.a, CYR.t, CYR.y>>}>>,
          <<"save", {Str("save"), zberehty,
                     zberehty \o Space \o <<CYR.p, CYR.o, CYR.z, CYR.y, 1094, CYR.i, 1102>>}>>,
          <<"savegame", {Str("savegame"), partiy \o <<1103>>,
                         zberehty \o Space \o partiy \o <<1102>>,
                         zberehty \o Space \o <<CYR.g, CYR.r, CYR.u>>}>>,
          <<"resign", {Str("resign"),
                       <<CYR.z, CYR.d, CYR.a, CYR.t, CYR.y, CYR.s, 1103>>,
                       <<CYR.z, CYR.d, CYR.a, 1102, CYR.s, CYR.soft>>}>>,
          <<"quit", {Str("quit"), Str("exit"),
                     <<CYR.v, CYR.y, 1081, CYR.t, CYR.y>>,
                     <<CYR.v, CYR.y, CYR.h, CYR.i, CYR.d>>}>> >>

\* A hints command that switches the hints off.
Command_HintsOff ==
    /\ game.at = "prompt"
    /\ pc = "idle"
    /\ \E i \in 1..7 :
          Resume(board, [game EXCEPT !.shown = commands[i][1],
                                     !.hints_enabled =
                                         IF commands[i][1] = "hints" THEN FALSE ELSE @])

\* get_player_move lines 268-293: a line is read and stripped; help, moves,
\* hints, fen, analyze, save and savegame, under any of their names and in
\* either case, show something (hints also switches the hints) and the prompt
\* repeats.  The lines typed: every command word as it is, in upper case, and
\* with spaces around it.
Command ==
    LET Said(text) == {i \in 1..Len(commands) : Lower(Strip(text)) \in commands[i][2]}
        Does(kind) ==
            /\ kind \notin {"resign", "quit"}
            /\ Resume(board, [game EXCEPT !.shown = kind,
                                          !.hints_enabled = IF kind = "hints" THEN ~@ ELSE @])
    IN /\ game.at = "prompt"
       /\ pc = "idle"
       /\ \E i \in 1..Len(commands) :
             \E text \in commands[i][2] \cup {Upper(n) : n \in commands[i][2]}
                            \cup {Pad(n, 1) : n \in commands[i][2]} :
                /\ Said(text) # {}
                /\ Does(commands[CHOOSE k \in Said(text) : \A j \in Said(text) : k <= j][1])

\* A resignation after which the engine still moves.
Resign_ThenEngine ==
    /\ game.at = "prompt"
    /\ pc = "idle"
    /\ Resume(board, [game EXCEPT !.at = "engine", !.resigned = TRUE, !.shown = "none"])

\* get_player_move lines 294-295 and play() lines 448-450: on resign, under
\* any of its names and in either case, None is returned and the loop is left.
Resign ==
    /\ game.at = "prompt"
    /\ pc = "idle"
    /\ \E text \in commands[8][2] \cup {Upper(n) : n \in commands[8][2]} :
          /\ Lower(Strip(text)) \in commands[8][2]
          /\ Resume(board, [game EXCEPT !.at = "final", !.resigned = TRUE, !.shown = "none"])

\* get_player_move lines 296-297: quit, under any of its names, raises
\* SystemExit; and play() line 484: Ctrl-C at a prompt or while the engine
\* thinks raises KeyboardInterrupt.  Either way play() goes to its finally.
Exit ==
    /\ pc = "idle"
    /\ \E cause \in {"SystemExit", "KeyboardInterrupt"} :
          /\ IF cause = "SystemExit"
             THEN /\ game.at = "prompt"
                  /\ \E text \in {Upper(n) : n \in commands[9][2]} :
                        Lower(Strip(text)) \in commands[9][2]
             ELSE game.at \in {"start", "setup", "prompt", "engine", "final"}
          /\ Resume(board, [game EXCEPT !.at = "finally",
                                        !.exc = IF cause = "SystemExit" THEN cause ELSE @,
                                        !.shown = "none"])

\* get_player_move line 300: any other line goes to the parser.  The lines
\* typed: the first legal move in standard notation, the last by its squares
\* with a dash, a rook move, and a text that is no move.
Type ==
    LET Texts(legal) ==
            {Input(san(board, legal[1]), "san", <<legal[1]>>, None, legal[1].to_square),
             Input(square_name(legal[Len(legal)].from_square) \o <<45>>
                       \o square_name(legal[Len(legal)].to_square),
                   "dash", <<legal[Len(legal)]>>, None, legal[Len(legal)].to_square),
             Input(Str("Ra8"), "odd", <<>>, None, 0),
             Input(Str("e9"), "odd", <<>>, None, 0)}
    IN /\ game.at = "prompt"
       /\ Len(board.move_stack) < MaxPlies
       /\ CallWith(Texts(legal_moves(board)), {0})
       /\ game' = [game EXCEPT !.shown = "none"]

\* get_player_move lines 302-305 and play() lines 448-464: a move that is in
\* the legal moves is pushed, after which the game may be over or the engine
\* is to move; anything else repeats the prompt.  An exception out of the
\* parser ends play().
Take ==
    LET Moved(b) ==
            Resume(b, [game EXCEPT !.at = IF check_game_over(b) THEN "final"
                                          ELSE IF b.turn # game.player_color THEN "engine"
                                          ELSE "top",
                                   !.shown = "move"])
    IN /\ game.at = "prompt"
       /\ pc = "done"
       /\ IF raised THEN Resume(board, [game EXCEPT !.at = "finally"])
          ELSE IF Truthy(result) /\ is_legal(board, result[1])
          THEN Moved(Push(board, result[1]))
          ELSE Resume(board, game)

\* ChessBot.make_engine_move and ChessEngine.get_best_move: the engine answers
\* with a legal move, which is pushed; without a connected engine, or when
\* the engine has no move to give, an exception ends play().
make_engine_move ==
    LET Reply(legal) ==
            IF game.engine = None THEN Resume(board, [game EXCEPT !.at = "top"])
            ELSE IF ~game.engines[game.engine].engine \/ legal = <<>>
            THEN Resume(board, [game EXCEPT !.at = "finally"])
            ELSE \E i \in 1..Len(legal) :
                    /\ i <= MaxReplies
                    /\ Resume(Push(board, legal[i]),
                              [game EXCEPT !.at = "top", !.shown = "reply"])
    IN /\ game.at = "engine"
       /\ Len(board.move_stack) < MaxPlies
       /\ Reply(legal_moves(board))

\* play() lines 467-482: the final position is shown; on "play again" the
\* board is reset and play() calls itself.
Final ==
    /\ game.at = "final"
    /\ \E again \in BOOLEAN :
          IF again
          THEN /\ game.frames < MaxRounds
               /\ Resume(BoardFromFen(STARTING_FEN),
                         [game EXCEPT !.at = "start", !.frames = @ + 1,
                                      !.game_over = FALSE, !.resigned = FALSE,
                                      !.shown = "none"])
          ELSE Resume(board, [game EXCEPT !.at = "finally"])

\* play() lines 484-491: the finally of the innermost play() closes the
\* engine the attribute holds; then that play() is left, into the finally of
\* the play() that called it, or out of the outermost.
Finally ==
    /\ game.at = "finally"
    /\ Resume(board,
              [game EXCEPT !.engines = IF game.engine = None THEN @
                                       ELSE [@ EXCEPT ![game.engine] = close(@)],
                           !.frames = @ - 1,
                           !.at = IF game.frames > 1 THEN "finally"
                                  ELSE IF game.exc = "SystemExit" THEN "exited"
                                  ELSE "returned"])

\* ChessBot.__init__ (lines 20-28): the board is the standard position.
PlayInit == Init /\ board = BoardFromFen(STARTING_FEN)

\* A game at the highest level of the documented range 0-20.
PlayNext ==
    \/ Connect({<<20>>}, {20})
    \/ Setup \/ LoopHead \/ Command \/ Resign \/ Exit \/ Type
    \/ Castling \/ Standard \/ Uci \/ Human \/ Dash
    \/ Take \/ make_engine_move \/ Final \/ Finally

PlaySpec == PlayInit /\ [][PlayNext]_vars

\* The engine's life alone: connected at every level, with every default
\* config.py may hold, and closed.
EngineNext ==
    \/ Connect({<<>>} \cup {<<s>> : s \in 0..20}, 0..20)
    \/ Setup \/ Exit \/ Finally

EngineSpec == PlayInit /\ [][EngineNext]_vars

(***************************************************************************)
(* Properties                                                              *)
(***************************************************************************)

Done == pc = "done"

\* The order parse_move is said to try its strategies in.
StrategyOrder == <<"castling", "standard", "uci", "human", "dash">>

\* The text parse_move starts from, and the text after its lower-casing.
EntryText == convert_cyrillic_to_latin(Strip(input.text))

\* What strategy i of StrategyOrder yields on the call's input and board.
StrategyMove(i) ==
    IF i = 1 THEN try_castling_ukrainian(EntryText, entry).move
    ELSE IF i = 2 THEN try_standard_notation(EntryText, entry).move
    ELSE IF i = 3 THEN try_uci_notation(Lower(EntryText), entry).move
    ELSE IF i = 4 THEN try_human_language(Lower(EntryText), entry).move
    ELSE try_dash_notation(Lower(EntryText), entry).move

\* The moves of the side to move's pieces of type t that legally reach sq.
MovesOfTypeTo(b, t, sq) ==
    {m \in SeqToSet(legal_moves(b)) :
        m.to_square = sq /\ b.pieces[m.from_square] = MkPiece(t, b.turn)}

\* Every value a chess.Move can take on the board.
BoardMoves == [from_square : Squares, to_square : Squares, promotion : {None} \cup 2..5]

ShortCastle(b) == Move(IF b.turn THEN 4 ELSE 60, IF b.turn THEN 6 ELSE 62, None)

LongCastle(b) == Move(IF b.turn THEN 4 ELSE 60, IF b.turn THEN 2 ELSE 58, None)

\* C1: a move parse_move returns is legal in the position it was given
\* (move in board.legal_moves), whichever strategy produced it.
C1_ReturnedMoveIsLegal == (Done /\ result # <<>>) => is_legal(entry, result[1])

\* A move found by the natural-language strategy, after three strategies failed.
C1_Witness == Done /\ result # <<>> /\ tried = SubSeq(StrategyOrder, 1, 4)

\* C2: the long-algebraic (UCI) text of a legal move resolves to that move.
C2_UciRoundTrip == (Done /\ input.kind = "uci") => result = input.move

\* b1c3 typed while a bishop on the first rank also reaches c3.
C2_Witness ==
    /\ Done
    /\ input.kind = "uci"
    /\ input.text = Str("b1c3")
    /\ result = <<Move(1, 18, None)>>
    /\ is_legal(entry, Move(0, 18, None))

\* C3 as claimed: the SAN text of a legal move resolves to that move, with the
\* piece letter typed in upper or lower case.
C3_SanRoundTripAnyCase ==
    (Done /\ input.kind \in {"san", "san_lower"}) => result = input.move

\* C3 as amended: the SAN text resolves to its move as written; with the piece
\* letter lower-cased it resolves to its move unless the lower-cased text is by
\* itself algebraic notation of another legal move (a b-file pawn move such as
\* bxc4 or bb5 for a bishop move), and then to that other move.
C3_SanRoundTripAmended ==
    /\ (Done /\ input.kind = "san") => result = input.move
    /\ (Done /\ input.kind = "san_lower") =>
          LET own == parse_san(entry, Strip(input.text))
          IN IF ~own.raised /\ Truthy(own.value) THEN result = own.value
             ELSE result = input.move

\* A bishop capture typed bxc4 that resolves to the bishop's move, and one that
\* resolves to a pawn's move.
C3_Witness ==
    /\ Done
    /\ input.kind = "san_lower"
    /\ Strip(input.text) = Str("bxc4")
    /\ piece_type_at(entry, input.move[1].from_square) = BISHOP
    /\ piece_type_at(entry, result[1].from_square) = PAWN

\* C4: a short-castle phrase resolves to the short-castle move when that is
\* legal and to None when it is not.
C4_ShortCastlePhrase ==
    (Done /\ input.kind = "castle" /\ input.to \in 1..4) =>
        result = (IF is_legal(entry, ShortCastle(entry)) THEN <<ShortCastle(entry)>> ELSE <<>>)

\* C5: a long-castle phrase resolves to the long-castle move when that is
\* legal, and never to the short-castle move.
C5_LongCastlePhrase ==
    (Done /\ input.kind = "castle" /\ input.to \in 5..7) =>
        /\ is_legal(entry, LongCastle(entry)) => result = <<LongCastle(entry)>>
        /\ result # <<ShortCastle(entry)>>

\* C6: the strategies run in the order castling, standard, UCI, natural
\* language, dashed; each runs only after all before it yielded no move; the
\* call returns the move of the first that yields one, and None if none does.
C6_FirstStrategyWins ==
    /\ tried = SubSeq(StrategyOrder, 1, Len(tried))
    /\ (pc \notin {"idle", "done"}) => pc = StrategyOrder[Len(tried) + 1]
    /\ (Done /\ ~raised) =>
          /\ \A i \in 1..(Len(tried) - 1) : ~Truthy(StrategyMove(i))
          /\ IF result # <<>>
             THEN Truthy(result) /\ result = StrategyMove(Len(tried))
             ELSE Len(tried) = Len(StrategyOrder) /\ ~Truthy(StrategyMove(Len(tried)))

\* B1c3 read by the standard notation as the bishop's move, which the UCI
\* strategy after it would have read as the knight's.
C6_Witness ==
    /\ Done
    /\ tried = SubSeq(StrategyOrder, 1, 2)
    /\ result = <<Move(0, 18, None)>>
    /\ try_uci_notation(Lower(EntryText), entry).move = <<Move(1, 18, None)>>

\* C7: during and after a parse_move call the board is the board the call
\* was given: placement, side to move, move stack and the rest.
C7_BoardUnchanged == board = entry

\* A call that printed an ambiguity report, for which Board.san pushed and
\* popped every candidate.
C7_Witness == Done /\ Len(report) >= 2 /\ board = entry

\* C8: no exception leaves parse_move, it returns a move or None, and a call
\* that has begun ends within five strategy steps: every step of a call in
\* progress runs one more strategy, and no call runs more than five.
C8_NeverRaisesAndTerminates ==
    /\ [](~raised)
    /\ [](Done => (result = <<>> \/ (Truthy(result) /\ result[1] \in BoardMoves)))
    /\ [][(pc \notin {"idle", "done"}) =>
            /\ Len(tried') = Len(tried) + 1
            /\ Len(tried') <= Len(StrategyOrder)
            /\ (Len(tried') = Len(StrategyOrder) => pc' = "done")]_vars

\* A malformed coordinate text (e4e4 makes Move.from_uci raise) that ran through
\* all five strategies and returned None.
C8_Witness ==
    /\ Done
    /\ input.text = Str("e4e4")
    /\ from_uci(move_text).raised
    /\ Len(tried) = 5
    /\ result = <<>>
    /\ ~raised

\* C9: when exactly two knights of the side to move legally reach a square,
\* the knight phrase for that square returns no move and reports exactly those
\* two candidates, each with its own origin square.
C9_TwoKnightsAmbiguous ==
    (/\ Done
     /\ input.kind = "phrase"
     /\ input.piece = KNIGHT
     /\ Cardinality(MovesOfTypeTo(entry, KNIGHT, input.to)) = 2) =>
        /\ result = <<>>
        /\ Len(report) = 2
        /\ report[1][2] # report[2][2]
        /\ {report[1][2], report[2][2]}
              = {square_name(m.from_square) : m \in MovesOfTypeTo(entry, KNIGHT, input.to)}
        /\ \A i \in 1..2 : \E m \in MovesOfTypeTo(entry, KNIGHT, input.to) :
              report[i] = <<san(entry, m), square_name(m.from_square)>>

\* The knights on b1 and f3 and the phrase for d2.
C9_Witness ==
    /\ Done
    /\ input.kind = "phrase"
    /\ input.piece = KNIGHT
    /\ input.to = 11
    /\ report = << <<Str("Nfd2"), Str("f3")>>, <<Str("Nbd2"), Str("b1")>> >>

\* C10: a call whose disambiguation found more than one qualifying move (and
\* printed the ambiguity report) returns no move.
C10_AmbiguousReturnsNoMove == (Done /\ report # <<>>) => result = <<>>

\* C11: when exactly one pawn of the side to move can legally reach a square
\* and the token is that square's name alone, parse_move returns a move of that
\* pawn to that square.
C11_LonePawnSquare ==
    (/\ Done
     /\ input.kind = "square"
     /\ Cardinality({m.from_square : m \in MovesOfTypeTo(entry, PAWN, input.to)}) = 1) =>
        /\ result # <<>>
        /\ result[1] \in MovesOfTypeTo(entry, PAWN, input.to)

\* What _try_human_language reads in a lower-cased text (lines 161-179): the
\* piece symbol, whether a piece name was found, and the squares extracted.
HumanReading(text) ==
    LET found == FirstPieceName(text, 1)
        rest == IF found = 0 THEN text
                ELSE Strip(Replace(text, piece_names[found][1], <<>>))
    IN [piece |-> IF found = 0 THEN 80 ELSE piece_names[found][2],
        named |-> found # 0,
        squares |-> FindSquares(Strip(Replace(Replace(Replace(rest, Words.na, Space),
                                                      Words.z, Space), Words.v, Space)))]

\* C12: a token from which three or more squares are extracted and in which
\* no piece name is found resolves to None.
C12_ThreeSquaresUnrecognised ==
    LET reading == HumanReading(Lower(move_text))
    IN (Done /\ ~reading.named /\ Len(reading.squares) >= 3) => result = <<>>

\* A legal move's two squares with a dash and a third square after them: all
\* five strategies ran and none took two of the three squares.
C12_Witness ==
    /\ Done
    /\ input.kind = "three"
    /\ is_legal(entry, input.move[1])
    /\ Len(HumanReading(Lower(move_text)).squares) = 3
    /\ tried = StrategyOrder
    /\ result = <<>>

\* C13: a dashed token of two square names resolves to the move from the
\* first square to the second when that move is legal and to None when it is
\* not; it never resolves to a move with another origin or destination.
C13_DashedToken ==
    LET text == Strip(input.text)
        mv == Move(SquareIndex(SubSeq(text, 1, 2)), SquareIndex(SubSeq(text, 4, 5)), None)
    IN (/\ Done
        /\ Len(text) = 5
        /\ IsSquareName(SubSeq(text, 1, 2))
        /\ text[3] = 45
        /\ IsSquareName(SubSeq(text, 4, 5))) =>
            result = (IF is_legal(entry, mv) THEN <<mv>> ELSE <<>>)

\* parse_move as a function of its two arguments (lines 53-86): the move it
\* returns (<<>> for None) and the ambiguity report it prints.
ParseMove(text, b) ==
    LET t == convert_cyrillic_to_latin(Strip(text))
        castling == try_castling_ukrainian(t, b)
        standard == try_standard_notation(t, b)
        uci == try_uci_notation(Lower(t), b)
        human == try_human_language(Lower(t), b)
        dash == try_dash_notation(Lower(t), b)
    IN IF Truthy(castling.move) THEN [move |-> castling.move, report |-> <<>>]
       ELSE IF Truthy(standard.move) THEN [move |-> standard.move, report |-> <<>>]
       ELSE IF Truthy(uci.move) THEN [move |-> uci.move, report |-> <<>>]
       ELSE IF Truthy(human.move) THEN [move |-> human.move, report |-> human.report]
       ELSE IF Truthy(dash.move) THEN [move |-> dash.move, report |-> human.report]
       ELSE [move |-> <<>>, report |-> human.report]

\* C14: a token resolves as the token does in which each of the sixteen
\* letters of cyrillic_to_latin is replaced by its Latin letter (same move,
\* same report); the conversion preserves case and is idempotent.
C14_TransliterationEquivalence ==
    LET latin == [i \in 1..Len(input.text) |->
                     IF \E j \in 1..Len(cyrillic_to_latin) :
                           cyrillic_to_latin[j][1] = input.text[i]
                     THEN cyrillic_to_latin[CHOOSE j \in 1..Len(cyrillic_to_latin) :
                                               cyrillic_to_latin[j][1] = input.text[i]][2]
                     ELSE input.text[i]]
    IN (Done /\ latin # input.text) =>
          /\ [move |-> result, report |-> report] = ParseMove(latin, entry)
          /\ convert_cyrillic_to_latin(input.text) = latin
          /\ convert_cyrillic_to_latin(latin) = latin
          /\ convert_cyrillic_to_latin(Lower(input.text)) = Lower(latin)
          /\ convert_cyrillic_to_latin(Upper(input.text)) = Upper(latin)

\* The square e4 typed with the Cyrillic letter resolves to the pawn's move,
\* as the Latin e4 does.
C14_Witness ==
    /\ Done
    /\ Strip(input.text) = <<CYR.e, 52>>
    /\ result = <<Move(12, 28, None)>>
    /\ ParseMove(Str("e4"), entry).move = result

\* C15: a phrase that names a piece and gives one square ('<piece> на <square>')
\* resolves only to a move of a piece of the named type; a phrase naming a
\* bishop, rook or queen never resolves to a pawn's move.
C15_NamedPieceMoves ==
    (Done /\ input.kind = "phrase" /\ result # <<>>) =>
        piece_type_at(entry, result[1].from_square) = input.piece

\* C16: a call returns what every kept earlier call with the same token
\* returned on the game's board (same move, same report), whatever calls came
\* between them, and what parse_move yields as a function of the token and the
\* board alone.
C16_SameTokenSameOutcome ==
    Done =>
        /\ \A k \in 1..Len(history) :
              history[k].text = input.text =>
                  result = history[k].result /\ report = history[k].report
        /\ [move |-> result, report |-> report] = ParseMove(input.text, entry)

\* A token resolved to a move, then a call that ended in an ambiguity report,
\* then the first token again.
C16_Witness ==
    /\ Done
    /\ Len(history) = 2
    /\ history[1].text = input.text
    /\ history[1].result # <<>>
    /\ history[1].report = <<>>
    /\ history[2].report # <<>>
    /\ history[2].result = <<>>
    /\ result = history[1].result

\* C17: when the natural-language strategy has one square, the moves that
\* qualify are the legal moves to that square whose origin holds a piece of the
\* requested type and of the colour to move.  With none the strategy yields no
\* move and prints nothing, with one it returns that move, with more it yields
\* no move and its report lists all of them in the order of the legal-move
\* enumeration.
C17_PieceAndTarget ==
    LET reading == HumanReading(move_text)
        to == SquareIndex(reading.squares[1])
        moves == legal_moves(entry)
        qualifying == {i \in 1..Len(moves) :
                          /\ moves[i].to_square = to
                          /\ entry.pieces[moves[i].from_square]
                                = MkPiece(SymbolType(reading.piece), entry.turn)}
        Rank(i) == Cardinality({j \in qualifying : j <= i})
    IN (Len(tried) = 4 /\ Len(reading.squares) = 1) =>
          /\ Cardinality(qualifying) = 0 => pc = "dash" /\ result = <<>> /\ report = <<>>
          /\ Cardinality(qualifying) = 1 =>
                /\ pc = "done"
                /\ report = <<>>
                /\ \E i \in qualifying : result = <<moves[i]>>
          /\ Cardinality(qualifying) > 1 =>
                /\ pc = "dash"
                /\ result = <<>>
                /\ Len(report) = Cardinality(qualifying)
                /\ \A i \in qualifying :
                      report[Rank(i)] = <<san(entry, moves[i]), square_name(moves[i].from_square)>>

\* The knights on f3 and b1 are listed in that order, the order the library
\* enumerates their moves in, after the knight phrase for d2.
C17_Witness ==
    /\ Len(tried) = 4
    /\ pc = "dash"
    /\ HumanReading(move_text) = [piece |-> 78, named |-> TRUE, squares |-> <<Str("d2")>>]
    /\ Len(report) = 2
    /\ report[1][2] = Str("f3")
    /\ report[2][2] = Str("b1")

\* C18: no two candidates listed in an ambiguity report have the same origin
\* square.
C18_DistinctOrigins ==
    \A i, j \in 1..Len(report) : i # j => report[i][2] # report[j][2]

\* C19: when the natural-language strategy has two squares, it returns the
\* move from the first to the second, without promotion, if that move is in
\* the legal moves, and no move if it is not, whatever piece the token names;
\* it prints no report.
C19_TwoSquares ==
    LET reading == HumanReading(move_text)
        mv == Move(SquareIndex(reading.squares[1]), SquareIndex(reading.squares[2]), None)
    IN (Len(tried) = 4 /\ Len(reading.squares) = 2) =>
          /\ report = <<>>
          /\ IF is_legal(entry, mv)
             THEN pc = "done" /\ result = <<mv>>
             ELSE pc = "dash" /\ result = <<>>

\* A token that names a knight and gives the two squares of a pawn's move: the
\* pawn's move is returned.
C19_Witness ==
    /\ Len(tried) = 4
    /\ pc = "done"
    /\ input.kind = "from_to"
    /\ HumanReading(move_text).piece = 78
    /\ Len(HumanReading(move_text).squares) = 2
    /\ result = input.move
    /\ piece_type_at(entry, result[1].from_square) = PAWN

\* C20: the standard-notation strategy returns what the first of the token as
\* typed, the token capitalised and the token upper-cased that board.parse_san
\* reads as a move is read as, and no move if it reads none of them.
C20_VariantOrder ==
    LET typed == parse_san(entry, EntryText)
        capitalised == parse_san(entry, Capitalize(EntryText))
        upper == parse_san(entry, Upper(EntryText))
        Reads(r) == ~r.raised /\ Truthy(r.value)
    IN Len(tried) = 2 =>
          IF Reads(typed) THEN pc = "done" /\ result = typed.value
          ELSE IF Reads(capitalised) THEN pc = "done" /\ result = capitalised.value
          ELSE IF Reads(upper) THEN pc = "done" /\ result = upper.value
          ELSE pc = "uci" /\ result = <<>>

\* bxc4 as typed is the pawn's capture and is returned, although Bxc4, the
\* capitalised variant, is the bishop's.
C20_Witness ==
    /\ Len(tried) = 2
    /\ pc = "done"
    /\ EntryText = Str("bxc4")
    /\ result = parse_san(entry, EntryText).value
    /\ piece_type_at(entry, result[1].from_square) = PAWN
    /\ ~parse_san(entry, Capitalize(EntryText)).raised
    /\ piece_type_at(entry, parse_san(entry, Capitalize(EntryText)).value[1].from_square) = BISHOP

\* C21: after an ambiguity report both suggested retries resolve, on the same
\* board, to the first candidate: the text of the standard notation printed
\* first in the hint, and the dashed origin-destination text printed second.
C21_HintsResolveToFirst ==
    (Done /\ hint # <<>>) =>
        LET legal == SeqToSet(legal_moves(entry))
            first == CHOOSE m \in legal : san(entry, m) = hint[1]
        IN /\ \E m \in legal : san(entry, m) = hint[1]
           /\ ParseMove(hint[1], entry).move = <<first>>
           /\ ParseMove(hint[2], entry).move = <<first>>

\* C22: a move pushed for the player was in the legal moves of the board it
\* was pushed on, that board had the player's colour to move, and the board
\* after it is that board with the move pushed.
C22_PlayerMoveLegal ==
    game.shown = "move" =>
        LET before == Pop(board)
            move == board.move_stack[Len(board.move_stack)]
        IN /\ board.move_stack # <<>>
           /\ is_legal(before, move)
           /\ before.turn = game.player_color
           /\ board = Push(before, move)

\* The player, with White, has mated with the rook.
C22_Witness ==
    /\ game.shown = "move"
    /\ game.player_color
    /\ game.at = "final"
    /\ is_checkmate(board)
    /\ board.move_stack = <<Move(0, 56, None)>>

\* C23: whenever make_engine_move is about to run, the side to move is not the
\* player's colour.
C23_EngineMovesOwnColour ==
    game.at = "engine" => board.turn # game.player_color

\* C24: whenever make_engine_move is about to run, the game on the board is
\* not over (check_game_over would be false).
C24_EngineAskedInLiveGame ==
    game.at = "engine" => ~check_game_over(board)


\* C25: a help, moves, hints, fen, analyze, save or savegame line typed at the
\* prompt leaves the board (placement, side to move, move stack) as it was and
\* the player at the prompt; of the game's attributes only hints_enabled
\* changes, on hints alone, and to its negation, so that a second hints
\* restores it.
C25_CommandsKeepTheTurn ==
    [][(game.at = "prompt" /\ pc = "idle"
            /\ game'.shown \in {commands[i][1] : i \in 1..7}) =>
          /\ board' = board
          /\ pc' = "idle"
          /\ game' = [game EXCEPT !.shown = game'.shown,
                                  !.hints_enabled =
                                      IF game'.shown = "hints" THEN ~@ ELSE @]]_vars

\* The prompt after hints was typed a second time, in a game in which a move
\* was made.
C25_Witness ==
    /\ game.at = "prompt"
    /\ pc = "idle"
    /\ game.shown = "hints"
    /\ game.hints_enabled
    /\ board.move_stack # <<>>


\* C26: once get_player_move has returned None for a resignation, no step of
\* that game changes the board: the step that resigns and every step after it
\* leave the board as it was, and the game is past its loop, where neither
\* the engine nor the player moves.
C26_NoMoveAfterResign ==
    [][game'.resigned =>
          /\ board' = board
          /\ game'.at \in {"final", "finally", "returned", "exited"}]_vars

\* play() has returned after a resignation at the player's second turn, the
\* engine's answer being the last move on the board.
C26_Witness ==
    /\ game.resigned
    /\ game.at = "returned"
    /\ game.shown = "none"
    /\ Len(board.move_stack) = 2
    /\ board.turn = game.player_color


\* C27: when the outermost play() has returned or has been left by
\* SystemExit, every engine a round of it connected has been closed: its
\* handle is None and quit() was sent to it once, however many times close()
\* ran on it; and at any time a second close() of an engine changes nothing
\* after the first, which leaves the handle None.
C27_EveryEngineClosed ==
    /\ game.at \in {"returned", "exited"} =>
          \A i \in 1..Len(game.engines) :
             ~game.engines[i].engine /\ game.engines[i].quits = 1
    /\ \A i \in 1..Len(game.engines) :
          /\ ~close(game.engines[i]).engine
          /\ close(close(game.engines[i])) = close(game.engines[i])

\* quit typed at the prompt of the second round: two engines were connected
\* and SystemExit went through the finally of both play() calls.
C27_Witness ==
    /\ game.at = "exited"
    /\ game.exc = "SystemExit"
    /\ Len(game.engines) = 2
    /\ game.engine = 2
    /\ \A i \in 1..2 : game.engines[i].quits = 1


\* C28: an engine constructed with a skill level s of 0..20 has skill_level s
\* and its "Skill Level" option configured to s, whatever default config.py
\* holds.
C28_SkillLevelAsPassed ==
    \A i \in 1..Len(game.engines) :
       LET e == game.engines[i]
       IN (e.given # <<>> /\ e.given[1] \in 0..20) =>
             e.skill_level = e.given[1] /\ e.option = e.given[1]

====
